---------------------------- MODULE Spec2Model ----------------------------
(***************************************************************************)
(* Model of the packet layer of the network core (network/core/packet.cpp, *)
(* network/core/tcp.cpp) and of the gamma codec of the savegame buffers    *)
(* (saveload/saveload_buffer.cpp).                                         *)
(*                                                                         *)
(* Four state machines share the variables below:                          *)
(*   SpecGamma    SaveDumper::WriteGamma / LoadBuffer::ReadGamma           *)
(*   SpecPacket   one Packet: construction, Send_*, PrepareToSend,         *)
(*                ParsePacketSize, PrepareToRead, Recv_*                   *)
(*   SpecTcpSend  NetworkClientSocket::Send_Packet / Send_Packets          *)
(*   SpecTcpRecv  NetworkClientSocket::Recv_Packet                         *)
(* Bytes are naturals 0..255.  Integers wider than 16 bits that travel     *)
(* through a Packet are kept as little-endian sequences of 16-bit limbs,   *)
(* because the model checker's integers are 32-bit signed.                 *)
(***************************************************************************)
EXTENDS Integers, Sequences, FiniteSets, TLC

VARIABLES
    \* ---- saveload buffers -------------------------------------------
    gbuf,        \* SaveDumper: the bytes written so far
    gwritten,    \* history: the values handed to WriteGamma
    gbufp,       \* LoadBuffer: number of bytes of gbuf already read
    gread,       \* history: the values ReadGamma returned
    gerr,        \* "none" | "assert" | "corrupt"
    gmode,       \* "write" | "read" (what was written) | "load" (a foreign stream)
    glast,       \* history: <<offset, first byte>> of the last ReadGamma call
    \* ---- one Packet --------------------------------------------------
    buffer,      \* Packet::buffer
    pos,         \* Packet::pos
    limit,       \* Packet::limit
    cs,          \* Packet::cs: "null" | "cs"
    mode,        \* life cycle of the packet, see SpecPacket
    fault,       \* "none" | "assert": a failed assert() aborted the program
    sent,        \* history: the typed values written with Send_*
    rcvd,        \* history: the typed values returned by Recv_*
    ret,         \* result of the last call
    dst,         \* destination string of the last Recv_string, as the caller sees it
    copied,      \* what the last Recv_string(char *) stored before validation
    oob,         \* the last call accessed a buffer index >= Size()
    wire,        \* the bytes that travel to the incoming packet
    \* ---- the connection (NetworkSocketHandler / NetworkClientSocket) --
    has_quit,    \* NetworkSocketHandler::has_quit
    sock,        \* "valid" | "INVALID_SOCKET"
    writable,    \* NetworkClientSocket::writable
    packet_queue,\* outgoing queue, head first; each [buffer, pos, size]
    packet_recv, \* <<>> (NULL) or <<p>>, the partially received packet
    networking,  \* _networking
    network_server, \* _network_server
    switch_mode, \* _switch_mode: "SM_NONE" | "SM_MENU"
    \* ---- the socket and the histories of the tcp machines -------------
    rx,          \* bytes the peer has sent that recv() has not yet returned
    frames,      \* history: the frames the peer sent, in order
    tx,          \* history: bytes send() has accepted, in order
    enq,         \* history: the packets handed to Send_Packet, in order
    delivered,   \* history: the packets Recv_Packet returned
    status,      \* *status of the last Recv_Packet
    tret,        \* result of the last tcp call
    closes       \* history: number of CloseConnection calls

gammaVars == <<gbuf, gwritten, gbufp, gread, gerr, gmode, glast>>
pktVars   == <<buffer, pos, limit, cs, mode, fault, sent, rcvd, ret, dst, copied, oob,
               wire>>
connVars  == <<has_quit, sock, writable, packet_queue, packet_recv,
               networking, network_server, switch_mode>>
netVars   == <<rx, frames, tx, enq, delivered, status, tret, closes>>
vars      == <<gammaVars, pktVars, connVars, netVars>>

-----------------------------------------------------------------------------
(* Bit operations of the C++ code on naturals.                             *)

Pow2(n) == 2 ^ n

\* GB(x, s, n): n bits of x starting at bit s.
GB(x, s, n) == (x \div Pow2(s)) % Pow2(n)

\* HasBit(x, y)
HasBit(x, y) == (x \div Pow2(y)) % 2 = 1

\* x >> n and x << n
Shr(x, n) == x \div Pow2(n)
Shl(x, n) == x * Pow2(n)

RECURSIVE BitOr(_, _)
\* x | y
BitOr(x, y) ==
    IF x = 0 THEN y
    ELSE IF y = 0 THEN x
    ELSE (IF x % 2 = 1 \/ y % 2 = 1 THEN 1 ELSE 0) + 2 * BitOr(x \div 2, y \div 2)

RECURSIVE BitAndNot(_, _)
\* x & ~m
BitAndNot(x, m) ==
    IF x = 0 THEN 0
    ELSE (IF x % 2 = 1 /\ m % 2 = 0 THEN 1 ELSE 0) + 2 * BitAndNot(x \div 2, m \div 2)

\* (byte)x
ToByte(x) == x % 256

Min(a, b) == IF a < b THEN a ELSE b

\* The first n elements of s, and s without them.
Take(s, n) == SubSeq(s, 1, n)
Drop(s, n) == SubSeq(s, n + 1, Len(s))

RECURSIVE Concat(_)
\* The concatenation of a sequence of sequences.
Concat(ss) == IF ss = <<>> THEN <<>> ELSE Head(ss) \o Concat(Tail(ss))

-----------------------------------------------------------------------------
(* Values every machine that is not running keeps.                         *)

GammaIdle ==
    /\ gbuf = <<>> /\ gwritten = <<>> /\ gbufp = 0 /\ gread = <<>>
    /\ gerr = "none" /\ gmode = "idle" /\ glast = <<>>

PktIdle ==
    /\ buffer = <<>> /\ pos = 0 /\ limit = 0 /\ cs = "null" /\ mode = "idle"
    /\ fault = "none" /\ sent = <<>> /\ rcvd = <<>> /\ ret = <<"none">>
    /\ dst = <<>> /\ copied = <<>> /\ oob = FALSE /\ wire = <<>>

ConnIdle ==
    /\ has_quit = FALSE /\ sock = "valid" /\ writable = TRUE
    /\ packet_queue = <<>> /\ packet_recv = <<>>
    /\ networking = TRUE /\ network_server = FALSE /\ switch_mode = "SM_NONE"

NetIdle ==
    /\ rx = <<>> /\ frames = <<>> /\ tx = <<>> /\ enq = <<>> /\ delivered = <<>>
    /\ status = "NETWORK_RECV_STATUS_OKAY" /\ tret = <<"none">> /\ closes = 0

-----------------------------------------------------------------------------
(* saveload/saveload_buffer.cpp: the gamma codec.                          *)

\* Values within GammaSpread of each length boundary are written.
GammaSpread == 2
\* At most this many values are written back to back.
MaxGammaWrites == 2

GammaBoundaries == {0, Pow2(7), Pow2(14), Pow2(21), Pow2(28)}

\* The legal values the model writes: the neighbourhood of every boundary
\* of the encoding, and some values with distinct bytes in between.
GammaInputs ==
    { v \in UNION { (b - GammaSpread) .. (b + GammaSpread) : b \in GammaBoundaries }
        : v >= 0 /\ v < Pow2(28) }
    \cup { 74, 4660, 1193046, 19088743, 268435455 - 65536 }

\* Values WriteGamma does not support: 2^28 and above.
GammaUnsupported ==
    { Pow2(28) + d : d \in 0 .. GammaSpread } \cup { Pow2(29) + 5, Pow2(30) + Pow2(24), 2147483647 }

\* SaveDumper::WriteGamma(i): the bytes written and whether the assert held.
\* assert() is compiled in: a failed assert ends the program.
WriteGamma_NoAssert(i) ==
    IF i >= Pow2(7) THEN
        IF i >= Pow2(14) THEN
            IF i >= Pow2(21) THEN
                [err |-> "none",
                 bytes |-> << ToByte(BitOr(224, Shr(i, 24))), ToByte(Shr(i, 16)),
                              ToByte(Shr(i, 8)), ToByte(i) >>]
            ELSE [err |-> "none",
                  bytes |-> << ToByte(BitOr(192, Shr(i, 16))), ToByte(Shr(i, 8)),
                               ToByte(i) >>]
        ELSE [err |-> "none", bytes |-> << ToByte(BitOr(128, Shr(i, 8))), ToByte(i) >>]
    ELSE [err |-> "none", bytes |-> << ToByte(i) >>]

WriteGamma_LateSecondByte(i) ==
    IF i > Pow2(7) THEN
        IF i >= Pow2(14) THEN
            IF i >= Pow2(21) THEN
                IF ~(i < Pow2(28)) THEN [err |-> "assert", bytes |-> <<>>]
                ELSE [err |-> "none",
                      bytes |-> << ToByte(BitOr(224, Shr(i, 24))), ToByte(Shr(i, 16)),
                                   ToByte(Shr(i, 8)), ToByte(i) >>]
            ELSE [err |-> "none",
                  bytes |-> << ToByte(BitOr(192, Shr(i, 16))), ToByte(Shr(i, 8)),
                               ToByte(i) >>]
        ELSE [err |-> "none", bytes |-> << ToByte(BitOr(128, Shr(i, 8))), ToByte(i) >>]
    ELSE [err |-> "none", bytes |-> << ToByte(i) >>]

WriteGamma_NoTag3(i) ==
    IF i >= Pow2(7) THEN
        IF i >= Pow2(14) THEN
            IF i >= Pow2(21) THEN
                IF ~(i < Pow2(28)) THEN [err |-> "assert", bytes |-> <<>>]
                ELSE [err |-> "none",
                      bytes |-> << ToByte(BitOr(224, Shr(i, 24))), ToByte(Shr(i, 16)),
                                   ToByte(Shr(i, 8)), ToByte(i) >>]
            ELSE [err |-> "none",
                  bytes |-> << ToByte(BitOr(128, Shr(i, 16))), ToByte(Shr(i, 8)),
                               ToByte(i) >>]
        ELSE [err |-> "none", bytes |-> << ToByte(BitOr(128, Shr(i, 8))), ToByte(i) >>]
    ELSE [err |-> "none", bytes |-> << ToByte(i) >>]

WriteGamma(i) ==
    IF i >= Pow2(7) THEN
        IF i >= Pow2(14) THEN
            IF i >= Pow2(21) THEN
                IF ~(i < Pow2(28)) THEN [err |-> "assert", bytes |-> <<>>]
                ELSE [err |-> "none",
                      bytes |-> << ToByte(BitOr(224, Shr(i, 24))), ToByte(Shr(i, 16)),
                                   ToByte(Shr(i, 8)), ToByte(i) >>]
            ELSE [err |-> "none",
                  bytes |-> << ToByte(BitOr(192, Shr(i, 16))), ToByte(Shr(i, 8)),
                               ToByte(i) >>]
        ELSE [err |-> "none", bytes |-> << ToByte(BitOr(128, Shr(i, 8))), ToByte(i) >>]
    ELSE [err |-> "none", bytes |-> << ToByte(i) >>]

\* LoadBuffer::ReadByte on the reader state r = [i, p, err] over stream s:
\* the next byte, or the corrupt-stream error of FillBuffer at the end.
GammaFirstByte(s, p) ==
    IF p >= Len(s) THEN [i |-> 0, p |-> p, err |-> "corrupt"]
    ELSE [i |-> s[p + 1], p |-> p + 1, err |-> "none"]

\* i = (i << 8) | this->ReadByte()
GammaNextByte(s, r) ==
    IF r.err # "none" THEN r
    ELSE IF r.p >= Len(s) THEN [r EXCEPT !.err = "corrupt"]
    ELSE [i |-> BitOr(Shl(r.i, 8), s[r.p + 1]), p |-> r.p + 1, err |-> "none"]

\* i &= ~m
GammaClear(r, m) == [r EXCEPT !.i = BitAndNot(r.i, m)]

\* LoadBuffer::ReadGamma() reading stream s from offset p.
ReadGamma_NoBit4Check(s, p) ==
    LET r0 == GammaFirstByte(s, p) IN
    IF r0.err # "none" THEN r0
    ELSE IF HasBit(r0.i, 7) THEN
        LET r1 == GammaClear(r0, 128) IN
        IF HasBit(r1.i, 6) THEN
            LET r2 == GammaClear(r1, 64) IN
            IF HasBit(r2.i, 5) THEN
                LET r3 == GammaClear(r2, 32) IN
                GammaNextByte(s, GammaNextByte(s, GammaNextByte(s, r3)))
            ELSE GammaNextByte(s, GammaNextByte(s, r2))
        ELSE GammaNextByte(s, r1)
    ELSE r0

ReadGamma(s, p) ==
    LET r0 == GammaFirstByte(s, p) IN
    IF r0.err # "none" THEN r0
    ELSE IF HasBit(r0.i, 7) THEN
        LET r1 == GammaClear(r0, 128) IN
        IF HasBit(r1.i, 6) THEN
            LET r2 == GammaClear(r1, 64) IN
            IF HasBit(r2.i, 5) THEN
                LET r3 == GammaClear(r2, 32) IN
                IF HasBit(r3.i, 4) THEN [r3 EXCEPT !.err = "corrupt"]
                ELSE GammaNextByte(s, GammaNextByte(s, GammaNextByte(s, r3)))
            ELSE GammaNextByte(s, GammaNextByte(s, r2))
        ELSE GammaNextByte(s, r1)
    ELSE r0

\* A stream to load that no WriteGamma produced starts with one of these
\* bytes: both ends of the range of every length indicator.
LoadFirstBytes == {0, 127, 128, 191, 192, 223, 224, 239, 240, 247, 255}

\* At most this many bytes follow the first byte of a foreign stream.
MaxTail == 3

RECURSIVE TailsOfLen(_)
TailsOfLen(n) ==
    IF n = 0 THEN { <<>> }
    ELSE { Append(t, b) : t \in TailsOfLen(n - 1), b \in {0, 255} }

ForeignStreams ==
    { <<>> } \cup
    { <<f>> \o t : f \in LoadFirstBytes, t \in UNION { TailsOfLen(n) : n \in 0 .. MaxTail } }

\* A SaveDumper with an empty buffer, or a LoadBuffer over a foreign stream.
GammaInit ==
    /\ \/ gbuf = <<>> /\ gmode = "write"
       \/ gbuf \in ForeignStreams /\ gmode = "load"
    /\ gwritten = <<>> /\ gbufp = 0 /\ gread = <<>>
    /\ gerr = "none" /\ glast = <<>>
    /\ PktIdle /\ ConnIdle /\ NetIdle

\* One call of SaveDumper::WriteGamma.
GammaWrite ==
    /\ gmode = "write" /\ gerr = "none"
    /\ Len(gwritten) < MaxGammaWrites
    /\ \E v \in GammaInputs \cup GammaUnsupported :
          LET w == WriteGamma(v) IN
          /\ gbuf' = gbuf \o w.bytes
          /\ gwritten' = Append(gwritten, v)
          /\ gerr' = w.err
    /\ UNCHANGED <<gbufp, gread, gmode, glast, pktVars, connVars, netVars>>

\* The dump is flushed and loaded again.
GammaReload ==
    /\ gmode = "write" /\ gerr = "none" /\ gwritten # <<>>
    /\ gmode' = "read"
    /\ UNCHANGED <<gbuf, gwritten, gbufp, gread, gerr, glast, pktVars, connVars, netVars>>

\* One call of LoadBuffer::ReadGamma: the loader of a dump reads as many
\* values as were written, the loader of a foreign stream reads on.
GammaRead ==
    /\ gerr = "none"
    /\ \/ gmode = "read" /\ Len(gread) < Len(gwritten)
       \/ gmode = "load" /\ Len(gread) < MaxGammaWrites
    /\ LET r == ReadGamma(gbuf, gbufp) IN
          /\ gerr' = r.err
          /\ gbufp' = r.p
          /\ gread' = IF r.err = "none" THEN Append(gread, r.i) ELSE gread
    /\ glast' = IF gbufp < Len(gbuf) THEN <<gbufp, gbuf[gbufp + 1]>> ELSE <<gbufp>>
    /\ UNCHANGED <<gbuf, gwritten, gmode, pktVars, connVars, netVars>>

GammaNext == GammaWrite \/ GammaReload \/ GammaRead

SpecGamma == GammaInit /\ [][GammaNext]_vars

\* C3: Gamma round-trip: every value in [0, 2^28-1] written with WriteGamma
\* is returned unchanged by ReadGamma reading the bytes WriteGamma produced,
\* and neither call faults.
C3_GammaRoundTrip ==
    gmode # "load" =>
        /\ (\A k \in 1 .. Len(gwritten) : gwritten[k] < Pow2(28)) => gerr = "none"
        /\ \A k \in 1 .. Len(gread) : gread[k] = gwritten[k]
        /\ (gmode = "read" /\ Len(gread) = Len(gwritten)) => gbufp = Len(gbuf)

\* A four-byte value and a one-byte value were written and read back.
C3_Witness ==
    /\ gmode = "read" /\ Len(gread) = 2
    /\ gread[1] >= Pow2(21) /\ gread[2] < Pow2(7) /\ Len(gbuf) = 5

\* The length C13 gives the encoding of v, and the top bits of its first byte.
GammaLength(v) ==
    IF v < Pow2(7) THEN 1 ELSE IF v < Pow2(14) THEN 2 ELSE IF v < Pow2(21) THEN 3 ELSE 4

GammaTag(n) == CASE n = 1 -> 0 [] n = 2 -> 128 [] n = 3 -> 192 [] n = 4 -> 224

\* The bytes C13 describes for v: the top bits, then v most significant
\* byte first.
GammaLayout(v) ==
    LET n == GammaLength(v) IN
    [k \in 1 .. n |->
        IF k = 1 THEN GammaTag(n) + v \div Pow2(8 * (n - 1))
        ELSE (v \div Pow2(8 * (n - k))) % 256]

RECURSIVE LayoutAll(_)
LayoutAll(vals) ==
    IF vals = <<>> THEN <<>> ELSE GammaLayout(Head(vals)) \o LayoutAll(Tail(vals))

AllSupported == \A k \in 1 .. Len(gwritten) : gwritten[k] < Pow2(28)

\* C11: WriteGamma(i) with i >= 2^28 reports the fault and writes no byte:
\* the buffer holds the encodings of the values written before it and
\* nothing else, so no first byte with overflowing value bits is emitted.
C11_UnsupportedGamma ==
    (gmode = "write" /\ gwritten # <<>> /\ gwritten[Len(gwritten)] >= Pow2(28)) =>
        /\ gerr = "assert"
        /\ gbuf = LayoutAll(SubSeq(gwritten, 1, Len(gwritten) - 1))

\* 2^28 was handed to WriteGamma after a two-byte value.
C11_Witness ==
    /\ gmode = "write" /\ Len(gwritten) = 2 /\ gwritten[2] = Pow2(28)
    /\ gerr = "assert" /\ Len(gbuf) = 2

\* The first byte of the last ReadGamma announces this many further bytes.
Announced(b) == IF b < 128 THEN 0 ELSE IF b < 192 THEN 1 ELSE IF b < 224 THEN 2 ELSE 3

\* The last ReadGamma call found a first byte.
ReadFirstByte == gmode = "load" /\ Len(glast) = 2

\* C12 as stated: ReadGamma reports the corrupt-stream fault for every first
\* byte in 0xF0..0xFF and for no first byte in 0x00..0xEF.
C12_CorruptIffHighNibble ==
    ReadFirstByte => (gerr = "corrupt" <=> glast[2] >= 240)

\* C12 amended: ReadGamma reports the corrupt-stream fault for every first
\* byte in 0xF0..0xFF, whatever follows, and for a first byte in 0x00..0xEF
\* exactly when the stream ends before the bytes that first byte announces.
C12_CorruptFirstByte ==
    ReadFirstByte =>
        (gerr = "corrupt" <=>
            \/ glast[2] >= 240
            \/ glast[1] + 1 + Announced(glast[2]) > Len(gbuf))

\* 0xF0 followed by three bytes was rejected.
C12_Witness ==
    /\ ReadFirstByte /\ glast = <<0, 240>> /\ Len(gbuf) = 4 /\ gerr = "corrupt"

\* C13: Gamma bit layout: the buffer is, value after value, 1 byte with top
\* bit 0 below 2^7, 2 bytes with top bits 10 below 2^14, 3 bytes with top
\* bits 110 below 2^21, 4 bytes with top bits 1110 below 2^28, the rest of
\* the first byte and the following bytes holding the value most
\* significant byte first.
C13_GammaLayout ==
    (gmode = "write" /\ AllSupported) => gbuf = LayoutAll(gwritten)

\* 2^14 and 2^21 + 1 were written: three bytes, then four.
C13_Witness ==
    /\ gmode = "write" /\ gwritten = <<Pow2(14), Pow2(21) + 1>>
    /\ gbuf = <<192, 64, 0, 224, 32, 0, 1>>

-----------------------------------------------------------------------------
(* network/core/packet.cpp: one Packet.                                    *)

\* sizeof(PacketSize) and sizeof(PacketType)
SizeofPacketSize == 2
SizeofPacketType == 1

\* The largest and the smallest size limit an outgoing packet is built with.
MaxLimit == 12
SmallLimit == 5
\* A size limit that lets the size need both bytes of the length field.
BigLimit == 300
\* The size limit of the incoming packets that hold arbitrary bytes.
PeerLimit == 6
\* At most this many Send_* calls follow the construction of a packet.
MaxWrites == 2
\* The largest destination capacity Recv_string(char *) is called with.
MaxCapacity == 2
\* Recv_string is not called again once pos is this far past the size.
MaxOverrun == 1

\* Packet::Size()
Size == Len(buffer)

\* Typed values.  uint32 and uint64 are little-endian 16-bit limbs.
BoolVals == BOOLEAN
U8Vals   == {0, 90, 255}
U16Vals  == {0, 4660, 65535}
U32Vals  == { <<0, 0>>, <<17767, 291>>, <<65535, 65535>> }
U64Vals  == { <<0, 0, 0, 0>>, <<52719, 35243, 17767, 291>>,
              <<65535, 65535, 65535, 65535>> }
\* NUL-free strings: empty, printable, and one holding a control character.
StrVals  == { <<>>, <<65>>, <<66, 65>>, <<1, 65>> }
\* Sources of Send_bytes and Send_binary.
BinVals  == { <<7>>, <<0, 200, 9>>, [k \in 1 .. BigLimit |-> k % 251] }
PacketTypes == {0, 6}

\* GB(data, s, 8) of a value held as 16-bit limbs.
GBw(data, s) == GB(data[(s \div 16) + 1], s % 16, 8)

\* n += (uintN)byte << s on a value held as 16-bit limbs.
AddShl(n, byte, s) == [n EXCEPT ![(s \div 16) + 1] = @ + Shl(byte, s % 16)]

\* Packet::CanWriteToPacket
CanWriteToPacket_Beyond(bytes_to_write) == Size + bytes_to_write < limit + 2

CanWriteToPacket(bytes_to_write) == Size + bytes_to_write < limit

\* The bytes Send_uint16 inserts.
Bytes_uint16_BigEndian(data) == << GB(data, 8, 8), GB(data, 0, 8) >>

Bytes_uint16(data) == << GB(data, 0, 8), GB(data, 8, 8) >>

\* The bytes Send_uint32 inserts.
Bytes_uint32(data) == << GBw(data, 0), GBw(data, 8), GBw(data, 16), GBw(data, 24) >>

\* The bytes Send_uint64 inserts.
Bytes_uint64(data) ==
    << GBw(data, 0), GBw(data, 8), GBw(data, 16), GBw(data, 24),
       GBw(data, 32), GBw(data, 40), GBw(data, 48), GBw(data, 56) >>

\* The bytes Send_string emplaces: the characters and the terminating NUL.
Bytes_string(data) == data \o <<0>>

\* The buffer after Packet::ResetState(type) when both asserts hold.
ResetBuffer_TypeFirst(type) == <<type>> \o Bytes_uint16(0)

ResetBuffer(type) == Bytes_uint16(0) \o <<type>>

\* Packet::ResetState(type) on a packet under construction, on a prepared
\* packet, or on a packet just received from the peer: cs is dropped, the
\* buffer is cleared, Send_uint16(0) and Send_uint8(type) write the three
\* bytes (their asserts hold when 2 < limit and 3 < limit); pos is not
\* touched.  The bytes that were in flight to the packet are forgotten.
ResetState ==
    /\ fault = "none"
    /\ \/ mode \in {"out", "prepared"} /\ wire = <<>>
       \/ mode = "read" /\ ret[1] = "PrepareToRead" /\ sent = <<>>
    /\ \E type \in PacketTypes :
          /\ ret' = <<"ResetState", type>>
          /\ IF 0 + 2 < limit /\ 2 + 1 < limit
               THEN /\ buffer' = ResetBuffer(type)
                    /\ sent' = << [t |-> "uint8", v |-> type] >>
                    /\ fault' = "none"
               ELSE /\ fault' = "assert"
                    /\ buffer' = <<>>
                    /\ sent' = <<>>
    /\ cs' = "null"
    /\ mode' = "out"
    /\ rcvd' = <<>>
    /\ wire' = <<>>
    /\ UNCHANGED <<pos, limit, dst, copied, oob>>
    /\ UNCHANGED <<gammaVars, connVars, netVars>>

\* A typed write of bytes bs: assert(CanWriteToPacket(n)), then the insert.
\* The history records the value only when the write happened.
TypedWrite(op, t, v, bs) ==
    /\ mode = "out" /\ fault = "none"
    /\ Len(sent) < MaxWrites + 1
    /\ IF CanWriteToPacket(Len(bs))
         THEN /\ buffer' = buffer \o bs
              /\ sent' = Append(sent, [t |-> t, v |-> v])
              /\ fault' = "none"
         ELSE /\ fault' = "assert"
              /\ UNCHANGED <<buffer, sent>>
    /\ ret' = <<op, Len(bs)>>
    /\ UNCHANGED <<pos, limit, cs, mode, rcvd, dst, copied, oob, wire>>
    /\ UNCHANGED <<gammaVars, connVars, netVars>>

\* The byte Send_bool hands to Send_uint8: data ? 1 : 0.
Bytes_bool_AllOnes(data) == << IF data THEN 255 ELSE 0 >>

Bytes_bool(data) == << IF data THEN 1 ELSE 0 >>

Send_bool ==
    \E data \in BoolVals : TypedWrite("Send_bool", "bool", data, Bytes_bool(data))

Send_uint8 ==
    \E data \in U8Vals : TypedWrite("Send_uint8", "uint8", data, <<data>>)

Send_uint16 ==
    \E data \in U16Vals : TypedWrite("Send_uint16", "uint16", data, Bytes_uint16(data))

Send_uint32 ==
    \E data \in U32Vals : TypedWrite("Send_uint32", "uint32", data, Bytes_uint32(data))

Send_uint64 ==
    \E data \in U64Vals : TypedWrite("Send_uint64", "uint64", data, Bytes_uint64(data))

Send_string ==
    \E data \in StrVals : TypedWrite("Send_string", "string", data, Bytes_string(data))

Send_binary ==
    \E data \in BinVals : TypedWrite("Send_binary", "binary", data, data)

\* Packet::Send_bytes: as many bytes as fit, no assert.
Send_bytes_amount_Strict(n) == Min(n, limit - Size - 1)

Send_bytes_amount(n) == Min(n, limit - Size)

Send_bytes ==
    /\ mode = "out" /\ fault = "none"
    /\ Len(sent) < MaxWrites + 1
    /\ \E src \in BinVals :
          LET amount == Send_bytes_amount(Len(src)) IN
          /\ buffer' = buffer \o Take(src, amount)
          /\ sent' = Append(sent, [t |-> "binary", v |-> Take(src, amount)])
          /\ ret' = <<"Send_bytes", amount, Len(src)>>
    /\ UNCHANGED <<pos, limit, cs, mode, fault, rcvd, dst, copied, oob, wire>>
    /\ UNCHANGED <<gammaVars, connVars, netVars>>

\* The buffer Packet::PrepareToSend leaves.
PreparedBuffer_NoHighByte ==
    [buffer EXCEPT ![1] = GB(Size, 0, 8), ![2] = 0]

PreparedBuffer ==
    [buffer EXCEPT ![1] = GB(Size, 0, 8), ![2] = GB(Size, 8, 8)]

\* The packets a caller can hand to PrepareToSend or Send_Packet: one it
\* has built, or one it has just received.
Sendable ==
    /\ fault = "none"
    /\ \/ mode = "out"
       \/ mode \in {"in_hdr", "read"} /\ ret[1] \in {"Packet", "PrepareToRead"}

\* Packet::PrepareToSend
PrepareToSend_NoAssert ==
    /\ Sendable
    /\ buffer' = PreparedBuffer
    /\ pos' = 0
    /\ mode' = "prepared"
    /\ fault' = "none"
    /\ ret' = <<"PrepareToSend">>
    /\ UNCHANGED <<limit, cs, sent, rcvd, dst, copied, oob, wire>>
    /\ UNCHANGED <<gammaVars, connVars, netVars>>

PrepareToSend ==
    /\ Sendable
    /\ IF cs = "null"
         THEN /\ buffer' = PreparedBuffer
              /\ pos' = 0
              /\ mode' = "prepared"
              /\ fault' = "none"
         ELSE /\ fault' = "assert"
              /\ UNCHANGED <<buffer, pos, mode>>
    /\ ret' = <<"PrepareToSend">>
    /\ UNCHANGED <<limit, cs, sent, rcvd, dst, copied, oob, wire>>
    /\ UNCHANGED <<gammaVars, connVars, netVars>>

\* NetworkClientSocket::Send_Packet(packet) with the packet of this machine
\* (tcp.cpp:91-108): PrepareToSend, then the packet goes to the tail of the
\* queue, which owns it from then on.
Send_Packet_packet ==
    /\ Sendable
    /\ IF cs = "null"
         THEN /\ buffer' = PreparedBuffer
              /\ pos' = 0
              /\ mode' = "queued"
              /\ fault' = "none"
              /\ packet_queue' =
                    Append(packet_queue, [buffer |-> PreparedBuffer, pos |-> 0, size |-> Size])
         ELSE /\ fault' = "assert"
              /\ UNCHANGED <<buffer, pos, mode, packet_queue>>
    /\ ret' = <<"Send_Packet">>
    /\ UNCHANGED <<limit, cs, sent, rcvd, dst, copied, oob, wire>>
    /\ UNCHANGED <<gammaVars, has_quit, sock, writable, packet_recv, networking,
                   network_server, switch_mode, netVars>>

\* Bytes an incoming packet can hold: NUL, a control character, a letter.
PeerBytes == {0, 1, 65}

\* All sequences of n bytes of PeerBytes.
RECURSIVE SeqsOfLen(_)
SeqsOfLen(n) ==
    IF n = 0 THEN { <<>> }
    ELSE { Append(s, b) : s \in SeqsOfLen(n - 1), b \in PeerBytes }

\* What a peer can put on the wire for a packet with size limit lim: any
\* two header bytes, followed by as many bytes as a plausible header declares.
PeerWires(lim) ==
    UNION { { <<h0, h1>> \o body :
                body \in SeqsOfLen(IF h1 = 0 /\ h0 >= 3 /\ h0 <= lim THEN h0 - 2 ELSE 0) }
            : h0 \in 0 .. (lim + 1), h1 \in {0, 1} }

\* Packet::Packet(cs, limit, initial_read_size): buffer.resize(initial_read_size)
NewIncomingBuffer(initial_read_size) == [k \in 1 .. initial_read_size |-> 0]

\* The socket transfers the bytes w into the allocated buffer buf.
Received(buf, w) == [k \in 1 .. Len(buf) |-> IF k <= Len(w) THEN w[k] ELSE buf[k]]

\* Packet::ReadRawPacketSize
ReadRawPacketSize(buf) == buf[1] + Shl(buf[2], 8)

\* The test of Packet::ParsePacketSize on the decoded size.
PacketSizeRejected_NoMinimum(size) == size > limit

PacketSizeRejected(size) ==
    size < SizeofPacketSize + SizeofPacketType \/ size > limit

\* buffer.resize(size): truncates, or appends zero bytes.
Resize_GrowOnly(buf, size) ==
    IF size <= Len(buf) THEN buf ELSE [k \in 1 .. size |-> IF k <= Len(buf) THEN buf[k] ELSE 0]

Resize(buf, size) == [k \in 1 .. size |-> IF k <= Len(buf) THEN buf[k] ELSE 0]

\* Packet::ParsePacketSize
ParsePacketSize ==
    /\ mode = "in_hdr" /\ fault = "none"
    /\ IF cs = "null"
         THEN /\ fault' = "assert"
              /\ ret' = <<"ParsePacketSize">>
              /\ UNCHANGED <<buffer, pos, mode>>
         ELSE LET size == ReadRawPacketSize(buffer) IN
              /\ fault' = "none"
              /\ IF PacketSizeRejected(size)
                   THEN /\ ret' = <<"ParsePacketSize", FALSE>>
                        /\ mode' = "rejected"
                        /\ UNCHANGED <<buffer, pos>>
                   ELSE /\ ret' = <<"ParsePacketSize", TRUE>>
                        /\ buffer' = Resize(buffer, size)
                        /\ pos' = SizeofPacketSize
                        /\ mode' = "in_body"
    /\ UNCHANGED <<limit, cs, sent, rcvd, dst, copied, oob, wire>>
    /\ UNCHANGED <<gammaVars, connVars, netVars>>

\* The rest of the frame is transferred from the socket into the buffer;
\* pos is the write position while the packet is being received.
TransferIn ==
    /\ mode = "in_body" /\ fault = "none"
    /\ buffer' = Received(buffer, wire)
    /\ pos' = Size
    /\ mode' = "filled"
    /\ ret' = <<"TransferIn">>
    /\ UNCHANGED <<limit, cs, fault, sent, rcvd, dst, copied, oob, wire>>
    /\ UNCHANGED <<gammaVars, connVars, netVars>>

\* Packet::PrepareToRead
PrepareToRead_KeepsCursor ==
    /\ mode = "filled" /\ fault = "none"
    /\ pos' = pos
    /\ mode' = "read"
    /\ ret' = <<"PrepareToRead">>
    /\ UNCHANGED <<buffer, limit, cs, fault, sent, rcvd, dst, copied, oob, wire>>
    /\ UNCHANGED <<gammaVars, connVars, netVars>>

PrepareToRead ==
    /\ mode = "filled" /\ fault = "none"
    /\ pos' = SizeofPacketSize
    /\ mode' = "read"
    /\ ret' = <<"PrepareToRead">>
    /\ UNCHANGED <<buffer, limit, cs, fault, sent, rcvd, dst, copied, oob, wire>>
    /\ UNCHANGED <<gammaVars, connVars, netVars>>

\* The frame of a prepared packet reaches the peer: a packet for reading is
\* constructed there (initial_read_size == sizeof(PacketSize)) for the open
\* connection of the peer and the two bytes of the size are transferred
\* into it.
Transmit ==
    /\ mode = "prepared" /\ fault = "none"
    /\ wire' = buffer
    /\ buffer' = Received(NewIncomingBuffer(SizeofPacketSize), buffer)
    /\ pos' = SizeofPacketSize
    /\ cs' = "cs"
    /\ mode' = "in_hdr"
    /\ ret' = <<"Packet">>
    /\ UNCHANGED <<limit, fault, sent, rcvd, dst, copied, oob>>
    /\ has_quit' = FALSE
    /\ UNCHANGED <<gammaVars, sock, writable, packet_queue, packet_recv,
                   networking, network_server, switch_mode, netVars>>

-----------------------------------------------------------------------------
(* Reading a packet.                                                       *)

\* NetworkSocketHandler::CloseConnection marks the connection as closed.
SocketCloseConnection == TRUE

\* Packet::CanReadFromPacket: the answer and has_quit afterwards.
CanReadFromPacket_OffByWidth(bytes_to_read, close_connection) ==
    IF has_quit THEN [ok |-> FALSE, quit |-> has_quit]
    ELSE IF pos > Size
        THEN [ok |-> FALSE,
              quit |-> IF close_connection THEN SocketCloseConnection ELSE has_quit]
        ELSE [ok |-> TRUE, quit |-> has_quit]

CanReadFromPacket_IgnoresQuit(bytes_to_read, close_connection) ==
    IF pos + bytes_to_read > Size
        THEN [ok |-> FALSE,
              quit |-> IF close_connection THEN SocketCloseConnection ELSE has_quit]
        ELSE [ok |-> TRUE, quit |-> has_quit]

CanReadFromPacket(bytes_to_read, close_connection) ==
    IF has_quit THEN [ok |-> FALSE, quit |-> has_quit]
    ELSE IF pos + bytes_to_read > Size
        THEN [ok |-> FALSE,
              quit |-> IF close_connection THEN SocketCloseConnection ELSE has_quit]
        ELSE [ok |-> TRUE, quit |-> has_quit]

\* this->buffer[i]; an index past the end reads whatever lies there.
ByteAt(i) == IF i < Size THEN buffer[i + 1] ELSE 0

\* The reads of a packet that was written locally follow the types of the
\* writes; the reads of a packet holding arbitrary bytes are free.
Guided == sent # <<>>

ReadGuard(t) ==
    /\ mode = "read" /\ fault = "none"
    /\ Guided => (Len(rcvd) < Len(sent) /\ sent[Len(rcvd) + 1].t = t)

Record(t, v) == IF Guided THEN Append(rcvd, [t |-> t, v |-> v]) ELSE rcvd

\* A Recv_<integer> of the given width: zero when the bytes cannot be read.
\* ret' is <<operation, value, pos before the call>>.
TypedRead(op, t, width, zero, value) ==
    /\ ReadGuard(t)
    /\ LET c == CanReadFromPacket(width, TRUE) IN
          /\ has_quit' = c.quit
          /\ IF c.ok
               THEN /\ pos' = pos + width
                    /\ ret' = <<op, value, pos>>
                    /\ rcvd' = Record(t, value)
                    /\ oob' = (pos + width > Size)
               ELSE /\ ret' = <<op, zero, pos>>
                    /\ rcvd' = Record(t, zero)
                    /\ pos' = pos
                    /\ oob' = FALSE
    /\ UNCHANGED <<buffer, limit, cs, mode, fault, sent, dst, copied, wire>>
    /\ UNCHANGED <<gammaVars, sock, writable, packet_queue, packet_recv,
                   networking, network_server, switch_mode, netVars>>

\* The value Recv_uint8 assembles.
Value_uint8 == ByteAt(pos)

\* The value Recv_uint16 assembles.
Value_uint16_BigEndian == Shl(ByteAt(pos), 8) + ByteAt(pos + 1)

Value_uint16 == ByteAt(pos) + Shl(ByteAt(pos + 1), 8)

\* The value Recv_uint32 assembles.
Value_uint32 ==
    AddShl(AddShl(AddShl(AddShl(<<0, 0>>, ByteAt(pos), 0), ByteAt(pos + 1), 8),
                  ByteAt(pos + 2), 16), ByteAt(pos + 3), 24)

\* The value Recv_uint64 assembles.
Value_uint64 ==
    AddShl(AddShl(AddShl(AddShl(
    AddShl(AddShl(AddShl(AddShl(<<0, 0, 0, 0>>,
        ByteAt(pos), 0), ByteAt(pos + 1), 8), ByteAt(pos + 2), 16), ByteAt(pos + 3), 24),
        ByteAt(pos + 4), 32), ByteAt(pos + 5), 40), ByteAt(pos + 6), 48),
        ByteAt(pos + 7), 56)

Recv_uint8 == TypedRead("Recv_uint8", "uint8", 1, 0, Value_uint8)

\* Recv_bool is Recv_uint8() != 0.
Recv_bool == TypedRead("Recv_bool", "bool", 1, FALSE, Value_uint8 # 0)

Recv_uint16 == TypedRead("Recv_uint16", "uint16", 2, 0, Value_uint16)

Recv_uint32 == TypedRead("Recv_uint32", "uint32", 4, <<0, 0>>, Value_uint32)

Recv_uint64 == TypedRead("Recv_uint64", "uint64", 8, <<0, 0, 0, 0>>, Value_uint64)

\* Packet::Recv_binary(char *, size_t); the destination is untouched when
\* the bytes cannot be read.
Recv_binary ==
    /\ ReadGuard("binary")
    /\ \E size \in IF Guided THEN {Len(sent[Len(rcvd) + 1].v)} ELSE 0 .. 2 :
          LET c == CanReadFromPacket(size, TRUE)
              data == [k \in 1 .. size |-> ByteAt(pos + k - 1)]
          IN
          /\ has_quit' = c.quit
          /\ IF c.ok
               THEN /\ pos' = pos + size
                    /\ ret' = <<"Recv_binary", data, pos>>
                    /\ rcvd' = Record("binary", data)
                    /\ oob' = (pos + size > Size)
               ELSE /\ ret' = <<"Recv_binary", "untouched", pos>>
                    /\ rcvd' = Record("binary", "untouched")
                    /\ pos' = pos
                    /\ oob' = FALSE
    /\ UNCHANGED <<buffer, limit, cs, mode, fault, sent, dst, copied, wire>>
    /\ UNCHANGED <<gammaVars, sock, writable, packet_queue, packet_recv,
                   networking, network_server, switch_mode, netVars>>

\* The characters of a destination up to its first NUL.
RECURSIVE CString(_)
CString(s) ==
    IF s = <<>> \/ Head(s) = 0 THEN <<>> ELSE <<Head(s)>> \o CString(Tail(s))

\* str_validate / str_validate_inplace: control characters are removed.
StrValidate(s) == SelectSeq(s, LAMBDA c : c >= 32)

\* What an uninitialised destination or memory past the buffer may hold.
Garbage == { <<>>, <<1>>, <<65>> }

\* while (--size > 0 && pos < Size() && (*buffer++ = this->buffer[pos++]) != '\0') {}
\* on entry: size before the decrement, p the local pos, out the bytes stored.
RECURSIVE CopyLoop(_, _, _)
CopyLoop(size, p, out) ==
    IF ~(size - 1 > 0) THEN [size |-> size - 1, pos |-> p, out |-> out]
    ELSE IF ~(p < Size) THEN [size |-> size - 1, pos |-> p, out |-> out]
    ELSE IF buffer[p + 1] # 0 THEN CopyLoop(size - 1, p + 1, Append(out, buffer[p + 1]))
    ELSE [size |-> size - 1, pos |-> p + 1, out |-> Append(out, 0)]

\* while (pos < Size() && this->buffer[pos] != '\0') pos++;
RECURSIVE SkipLoop(_)
SkipLoop(p) == IF p < Size /\ buffer[p + 1] # 0 THEN SkipLoop(p + 1) ELSE p

\* Packet::Recv_string(char *, size_t, settings) after the has_quit test:
\* the bytes stored in the destination, in order from its start, and the
\* new read position (a PacketSize).
RecvStringScan_NoSkip(size) ==
    LET l == CopyLoop(size, pos, <<>>) IN
    IF l.size = 0 \/ l.pos = Size
        THEN [out |-> Append(l.out, 0), pos |-> (l.pos + 1) % 65536]
        ELSE [out |-> l.out, pos |-> l.pos]

RecvStringScan(size) ==
    LET l == CopyLoop(size, pos, <<>>) IN
    IF l.size = 0 \/ l.pos = Size
        THEN [out |-> Append(l.out, 0), pos |-> (SkipLoop(l.pos) + 1) % 65536]
        ELSE [out |-> l.out, pos |-> l.pos]

\* Packet::Recv_string(char *buffer, size_t size, settings).
\* ret' is <<operation, size, pos before the call, how the call ended>>.
Recv_string ==
    /\ ReadGuard("string")
    /\ pos <= Size + MaxOverrun
    /\ \E size \in IF Guided
                     THEN { Len(sent[Len(rcvd) + 1].v) + d : d \in {1, 2} }
                     ELSE 1 .. MaxCapacity :
          IF has_quit
            THEN /\ ret' = <<"Recv_string", size, pos, "quit">>
                 /\ rcvd' = Record("string", "untouched")
                 /\ UNCHANGED <<pos, dst, copied>>
            ELSE LET r == RecvStringScan(size) IN
                 /\ pos' = r.pos
                 /\ IF r.out # <<>>
                      THEN /\ copied' = r.out
                           /\ ret' = <<"Recv_string", size, pos, "stored">>
                      ELSE \* nothing was stored: the destination keeps what it held
                           /\ \E g \in Garbage : Len(g) < size /\ copied' = g \o <<0>>
                           /\ ret' = <<"Recv_string", size, pos, "nothing stored">>
                 /\ dst' = StrValidate(CString(copied'))
                 /\ rcvd' = Record("string", dst')
    /\ oob' = FALSE
    /\ UNCHANGED <<buffer, limit, cs, mode, fault, sent, wire>>
    /\ UNCHANGED <<gammaVars, connVars, netVars>>

\* ttd_strnlen(str, maxlen) on the bytes of the buffer from p on.
RECURSIVE StrNLen(_, _)
StrNLen(p, maxlen) ==
    IF maxlen > 0 /\ buffer[p + 1] # 0 THEN 1 + StrNLen(p + 1, maxlen - 1) ELSE 0

\* Packet::Recv_string(std::string &buffer, settings).  With pos >= Size()
\* the length limit Size() - pos - 1 wraps around and ttd_strnlen reads
\* past the buffer; what it finds there is not determined.
Recv_string_std ==
    /\ ReadGuard("string")
    /\ pos <= Size + MaxOverrun
    /\ IF has_quit
         THEN /\ ret' = <<"Recv_string_std", 0, pos, "quit">>
              /\ rcvd' = Record("string", "untouched")
              /\ oob' = FALSE
              /\ UNCHANGED <<pos, dst>>
         ELSE IF pos < Size
           THEN LET length == StrNLen(pos, Size - pos - 1) IN
                /\ dst' = StrValidate(SubSeq(buffer, pos + 1, pos + length))
                /\ pos' = (pos + length + 1) % 65536
                /\ ret' = <<"Recv_string_std", 0, pos, "stored">>
                /\ rcvd' = Record("string", dst')
                /\ oob' = FALSE
           ELSE \E g \in Garbage :
                /\ dst' = StrValidate(g)
                /\ pos' = (pos + Len(g) + 1) % 65536
                /\ ret' = <<"Recv_string_std", 0, pos, "overread">>
                /\ rcvd' = Record("string", dst')
                /\ oob' = TRUE
    /\ UNCHANGED <<buffer, limit, cs, mode, fault, sent, copied, wire>>
    /\ UNCHANGED <<gammaVars, connVars, netVars>>

-----------------------------------------------------------------------------
(* The packet machine.                                                     *)

PktLimits == {SmallLimit, MaxLimit, BigLimit}

\* Packet::Packet(PacketType type, size_t limit)
OutgoingInit ==
    /\ limit \in PktLimits
    /\ \E type \in PacketTypes :
          /\ buffer = ResetBuffer(type)
          /\ sent = << [t |-> "uint8", v |-> type] >>
    /\ pos = 0 /\ cs = "null" /\ mode = "out" /\ wire = <<>>
    /\ has_quit = FALSE

\* Packet::Packet(NetworkSocketHandler *cs, size_t limit, size_t initial_read_size)
\* followed by the first transfer from the socket: a stream reads the two
\* bytes of the size, a datagram socket the whole datagram.
IncomingInit ==
    /\ limit = PeerLimit
    /\ wire \in PeerWires(PeerLimit)
    /\ \E initial_read_size \in {SizeofPacketSize, PeerLimit} :
          buffer = Received(NewIncomingBuffer(initial_read_size), wire)
    /\ pos = SizeofPacketSize
    /\ cs = "cs" /\ mode = "in_hdr" /\ sent = <<>>
    /\ has_quit \in BOOLEAN

PacketInit ==
    /\ OutgoingInit \/ IncomingInit
    /\ fault = "none" /\ rcvd = <<>> /\ ret = <<"Packet">>
    /\ dst = <<>> /\ copied = <<>> /\ oob = FALSE
    /\ GammaIdle /\ NetIdle
    /\ sock = "valid" /\ writable = TRUE /\ packet_queue = <<>> /\ packet_recv = <<>>
    /\ networking = TRUE /\ network_server = FALSE /\ switch_mode = "SM_NONE"

PacketNext ==
    \/ Send_bool \/ Send_uint8 \/ Send_uint16 \/ Send_uint32 \/ Send_uint64
    \/ Send_string \/ Send_binary \/ Send_bytes
    \/ ResetState \/ PrepareToSend \/ Send_Packet_packet \/ Transmit \/ ParsePacketSize \/ TransferIn \/ PrepareToRead
    \/ Recv_bool \/ Recv_uint8 \/ Recv_uint16 \/ Recv_uint32 \/ Recv_uint64
    \/ Recv_binary \/ Recv_string \/ Recv_string_std

SpecPacket == PacketInit /\ [][PacketNext]_vars

-----------------------------------------------------------------------------
(* Properties of the packet machine.                                       *)

\* The types C4 speaks of.
RoundTripTypes == {"bool", "uint8", "uint16", "uint32", "uint64", "string"}

\* The k-th typed read returned what the k-th typed write wrote.
ReadBack(k) == rcvd[k].t = sent[k].t /\ rcvd[k].v = sent[k].v

\* The typed writes C4 speaks of.
RoundTripWrites ==
    {"Send_bool", "Send_uint8", "Send_uint16", "Send_uint32", "Send_uint64", "Send_string"}

\* C4: Primitive round-trip: a typed write of bool, uint8/16/32/64 or a
\* NUL-free string that fits within the size limit is carried out, and the
\* typed reads of the resulting frame, in the order of the writes and
\* starting just after the header, return the written values.
C4_RoundTrip ==
    /\ (fault = "assert" /\ ret[1] \in RoundTripWrites) => Size + ret[2] > limit
    /\ \A k \in 1 .. Len(rcvd) :
          (Guided /\ sent[k].t \in RoundTripTypes) => ReadBack(k)

\* The source string of a Recv_string that started at offset p: the bytes
\* from p up to the first NUL or the end of the packet.
RECURSIVE FieldAt(_)
FieldAt(p) ==
    IF p >= Size \/ buffer[p + 1] = 0 THEN <<>> ELSE <<buffer[p + 1]>> \o FieldAt(p + 1)

\* The source string at p ends with a NUL inside the packet.
Terminated(p) == p + Len(FieldAt(p)) < Size

\* The last call was a Recv_string(char *) on an open connection that had
\* to truncate: a NUL-terminated source at ret[3], capacity ret[2] >= 1
\* smaller than the length of the source + 1.
Truncating ==
    /\ mode = "read" /\ ret[1] = "Recv_string" /\ ret[4] = "stored"
    /\ ret[3] <= Size
    /\ Terminated(ret[3])
    /\ ret[2] >= 1 /\ ret[2] < Len(FieldAt(ret[3])) + 1

\* C5: String truncation resynchronization: a truncating Recv_string stores
\* the first capacity-1 source bytes and a NUL, and leaves the read cursor
\* one past the NUL of the source, where the next field starts.
C5_Resync ==
    Truncating =>
        /\ copied = Take(FieldAt(ret[3]), ret[2] - 1) \o <<0>>
        /\ pos = ret[3] + Len(FieldAt(ret[3])) + 1
        /\ buffer[pos] = 0
        /\ pos <= Size

\* A two-character source was read with capacity 2; a field follows it.
C5_Witness ==
    /\ Truncating /\ ret[2] = 2 /\ Len(FieldAt(ret[3])) = 2
    /\ copied = <<65, 0>> /\ pos < Size

IntReads == {"Recv_bool", "Recv_uint8", "Recv_uint16", "Recv_uint32", "Recv_uint64"}

WidthOf(op) ==
    CASE op = "Recv_bool" -> 1 [] op = "Recv_uint8" -> 1 [] op = "Recv_uint16" -> 2
      [] op = "Recv_uint32" -> 4 [] op = "Recv_uint64" -> 8

ReturnedZero ==
    CASE ret[1] = "Recv_bool" -> ret[2] = FALSE
      [] ret[1] = "Recv_uint8" -> ret[2] = 0
      [] ret[1] = "Recv_uint16" -> ret[2] = 0
      [] ret[1] = "Recv_uint32" -> ret[2] = <<0, 0>>
      [] ret[1] = "Recv_uint64" -> ret[2] = <<0, 0, 0, 0>>

\* The last call was an integer read whose width did not fit: ret[3] is the
\* read cursor the call found.
ReadPastEnd ==
    /\ mode = "read" /\ ret[1] \in IntReads
    /\ ret[3] + WidthOf(ret[1]) > Size

\* C7: Read bounds enforcement: Recv_bool and Recv_uint8/16/32/64 called
\* with read cursor + width > size return 0 (false), access no buffer index
\* >= size, leave the read cursor unchanged, and the connection is closed.
C7_ReadBounds ==
    ReadPastEnd =>
        /\ ReturnedZero
        /\ ~oob
        /\ pos = ret[3]
        /\ has_quit

\* Recv_uint32 was called with fewer than four unread bytes left.
C7_Witness ==
    /\ ReadPastEnd /\ ret[1] = "Recv_uint32" /\ ret[3] < Size
    /\ has_quit /\ buffer[ret[3] + 1] # 0

\* C8: Length prefix integrity: after PrepareToSend buffer[0] + 256 *
\* buffer[1] is the total size, the size is >= 3 and the cursor is 0.
C8_LengthPrefix ==
    mode = "prepared" =>
        /\ buffer[1] + 256 * buffer[2] = Size
        /\ Size >= 3
        /\ pos = 0

\* A prepared packet whose size needs the second byte of the length.
C8_Witness == mode = "prepared" /\ Size > 256 /\ buffer[2] = 1 /\ Len(sent) > 1

\* C9: Size-limit invariant: as long as no call faulted, the size of the
\* buffer of an outgoing or incoming packet is <= its size limit.
C9_SizeLimit == fault = "none" => Size <= limit

\* Send_bytes filled an outgoing packet exactly up to its limit.
C9_Witness == mode = "out" /\ ret[1] = "Send_bytes" /\ Size = limit /\ ret[2] > 0

\* C10 as stated: Read-cursor invariant: after any sequence of Recv_* calls
\* on a received packet the read cursor is <= the size of the packet.
C10_ReadCursor == mode = "read" => pos <= Size

IntWrites == {"Send_uint8", "Send_uint16", "Send_uint32", "Send_uint64"}

BytesOfType(t) ==
    CASE t = "uint8" -> 1 [] t = "uint16" -> 2 [] t = "uint32" -> 4 [] t = "uint64" -> 8

\* (v >> 8k) mod 256 for a value of type t; values wider than 16 bits are
\* sequences of 16-bit limbs, least significant first.
WireByte(t, v, k) ==
    LET limb == IF t \in {"uint8", "uint16"} THEN v ELSE v[k \div 2 + 1] IN
    (limb \div (IF k % 2 = 0 THEN 1 ELSE 256)) % 256

\* C14: Little-endian wire encoding: a Send_uint8/16/32/64(v) that is
\* carried out appends exactly 1/2/4/8 bytes to the buffer, the k-th of
\* them (k from 0) being (v >> 8k) mod 256.
C14_LittleEndian ==
    [][(ret'[1] \in IntWrites /\ Len(sent') = Len(sent) + 1) =>
          LET e == sent'[Len(sent')] IN
          buffer' = buffer \o [k \in 1 .. BytesOfType(e.t) |-> WireByte(e.t, e.v, k - 1)]]_vars

\* 0x01234567 was appended as 67 45 23 01.
C14_Witness ==
    /\ mode = "out" /\ fault = "none" /\ ret = <<"Send_uint32", 4>>
    /\ sent[Len(sent)].v = <<17767, 291>>
    /\ SubSeq(buffer, Size - 3, Size) = <<103, 69, 35, 1>>

\* The length the first two bytes of the buffer declare, little-endian.
DeclaredLength == buffer[1] + 256 * buffer[2]

\* C15: ParsePacketSize accepts the header if and only if the declared
\* length L satisfies 3 <= L <= limit; when it rejects, it returns false
\* and leaves the size of the buffer and the read cursor unchanged.
C15_ParseAccepts ==
    [][(mode = "in_hdr" /\ ret'[1] = "ParsePacketSize" /\ fault' = "none") =>
          /\ ret'[2] = (3 <= DeclaredLength /\ DeclaredLength <= limit)
          /\ ret'[2] = FALSE => (Len(buffer') = Len(buffer) /\ pos' = pos)]_vars

\* A datagram whose header declares 2 bytes was rejected.
C15_Witness ==
    /\ mode = "rejected" /\ ret = <<"ParsePacketSize", FALSE>>
    /\ DeclaredLength = 2 /\ Size = PeerLimit /\ pos = 2

\* ParsePacketSize has just accepted the header.
ParseSucceeded == mode = "in_body" /\ ret = <<"ParsePacketSize", TRUE>>

\* C16 as stated: on success ParsePacketSize resizes the buffer to the
\* declared length and sets the read cursor to 3.
C16_ParseCursor3 == ParseSucceeded => (Size = DeclaredLength /\ pos = 3)

\* C16 amended: on success ParsePacketSize resizes the buffer to the
\* declared length and sets the read cursor to 2, just past the two bytes
\* of the length, at the type tag.
C16_ParseCursor2 == ParseSucceeded => (Size = DeclaredLength /\ pos = 2)

\* A datagram buffer of PeerLimit bytes was cut down to a declared 3 bytes.
C16_Witness ==
    /\ ParseSucceeded /\ DeclaredLength = 3 /\ Size = 3 /\ limit = PeerLimit
    /\ Len(wire) = 3

\* C17 as stated: PrepareToRead sets the read cursor to offset 3, so the
\* first typed read yields the first payload byte, not the type tag.
C17_ReadCursor3 ==
    /\ (mode = "read" /\ ret[1] = "PrepareToRead") => pos = 3
    /\ (mode = "read" /\ ret[1] = "Recv_uint8" /\ Len(rcvd) = 1) => ret[3] = 3

\* C17 amended: PrepareToRead sets the read cursor to offset 2, whatever
\* its previous value, so the first typed read of the packet starts at
\* offset 2 and a Recv_uint8 there yields the type tag.
C17_ReadCursor2 ==
    /\ (mode = "read" /\ ret[1] = "PrepareToRead") => pos = 2
    /\ (mode = "read" /\ ret[1] = "Recv_uint8" /\ Len(rcvd) = 1) =>
          (ret[3] = 2 /\ ret[2] = buffer[3] /\ rcvd[1] = sent[1])

\* The type tag 6 of a packet with a payload was the first value read.
C17_Witness ==
    /\ mode = "read" /\ ret = <<"Recv_uint8", 6, 2>> /\ Len(rcvd) = 1
    /\ Size > 3 /\ pos = 3

\* The packet has just been constructed for sending, or reset.
FreshOutgoing ==
    mode = "out" /\ fault = "none" /\ ret[1] \in {"Packet", "ResetState"}

\* C18: right after outgoing construction with type tag t, and after
\* ResetState(t) on any packet, the buffer holds exactly three bytes, 0, 0
\* and t, no connection is associated, and the next write lands at offset 3.
C18_FreshPacket ==
    FreshOutgoing =>
        /\ Size = 3 /\ buffer[1] = 0 /\ buffer[2] = 0
        /\ buffer[3] = sent[1].v /\ Len(sent) = 1
        /\ ret[1] = "ResetState" => buffer[3] = ret[2]
        /\ cs = "null"

\* A packet received from the peer was reset with type tag 6.
C18_Witness ==
    /\ FreshOutgoing /\ ret = <<"ResetState", 6>> /\ buffer = <<0, 0, 6>>
    /\ pos = 2 /\ limit = PeerLimit

\* C19: Send_bytes with a source of n bytes on a packet of size s appends
\* exactly the first min(n, limit - s) source bytes, returns that count,
\* does not fault and leaves the size <= limit; with s = limit it appends
\* nothing and returns 0.
C19_SendBytes ==
    [][(mode = "out" /\ ret'[1] = "Send_bytes") =>
          LET n   == ret'[3]
              src == CHOOSE b \in BinVals : Len(b) = n
              m   == IF n <= limit - Size THEN n ELSE limit - Size
          IN  /\ buffer' = buffer \o SubSeq(src, 1, m)
              /\ ret'[2] = m
              /\ fault' = "none"
              /\ Len(buffer') <= limit
              /\ Size = limit => (buffer' = buffer /\ ret'[2] = 0)]_vars

\* Send_bytes was called on a packet that was already full.
C19_Witness ==
    /\ mode = "out" /\ ret[1] = "Send_bytes" /\ ret[2] = 0 /\ ret[3] = 3
    /\ Size = limit /\ Len(sent) = 3

TypedWrites ==
    {"Send_bool", "Send_uint8", "Send_uint16", "Send_uint32", "Send_uint64",
     "Send_string", "Send_binary"}

\* C20: Write-size precondition: a typed write of n bytes on a packet of
\* size s faults if and only if s + n > limit; otherwise it appends exactly
\* n bytes and leaves the earlier bytes unchanged.
C20_WritePrecondition ==
    [][(mode = "out" /\ ret'[1] \in TypedWrites) =>
          /\ fault' = "assert" <=> Size + ret'[2] > limit
          /\ fault' = "none" =>
                (Len(buffer') = Size + ret'[2] /\ SubSeq(buffer', 1, Size) = buffer)]_vars

-----------------------------------------------------------------------------
(* network/core/tcp.cpp: NetworkClientSocket.  The packets of this file    *)
(* are records [buffer, pos, size]: buffer holds the bytes stored so far,  *)
(* pos is p->pos and size is p->size.                                      *)

\* The largest frame Recv_Packet accepts (SEND_MTU), scaled down.
SEND_MTU == 4
\* The peer sends at most this many frames.
MaxFrames == 2
\* At most this many packets are handed to Send_Packet.
MaxEnqueued == 3
\* The code that handles the connection calls CloseConnection at most
\* this many times.
MaxCloses == 3

\* NetworkSocketHandler::IsConnected
IsConnected == sock # "INVALID_SOCKET"

\* new Packet(this): nothing received yet.
NewRecvPacket == [buffer |-> <<>>, pos |-> 0, size |-> 0]

\* recv() stored the bytes bs at p->buffer + p->pos; p->pos += res.
Fill(p, bs) == [p EXCEPT !.buffer = @ \o bs, !.pos = @ + Len(bs)]

\* p->ReadRawPacketSize(): p->size is the size the two header bytes declare.
WithRawPacketSize(p) == [p EXCEPT !.size = ReadRawPacketSize(p.buffer)]

\* p->PrepareToRead()
PreparedToRead(p) == [p EXCEPT !.pos = SizeofPacketSize]

\* What the loop "while (p->pos < want) recv(...)" can do with the stream:
\* it fills the packet up to want ("full"), or stores fewer bytes and then
\* recv reports would-block, an error, or 0 bytes (the peer has closed, so
\* nothing more arrives).
RecvLoop_ForgetsPartial(p, want, stream) ==
    LET need == IF want > p.pos THEN want - p.pos ELSE 0 IN
    { [end |-> e, p |-> p,
       rx |-> IF e = "eof" THEN <<>> ELSE Drop(stream, n)] :
        n \in { m \in 0 .. Len(stream) : m < need },
        e \in {"wouldblock", "error", "eof"} }
    \cup
    IF Len(stream) >= need
        THEN { [end |-> "full", p |-> Fill(p, Take(stream, need)), rx |-> Drop(stream, need)] }
        ELSE {}

RecvLoop_Greedy(p, want, stream) ==
    LET need == IF want > p.pos THEN want - p.pos ELSE 0 IN
    { [end |-> e, p |-> Fill(p, Take(stream, n)),
       rx |-> IF e = "eof" THEN <<>> ELSE Drop(stream, n)] :
        n \in { m \in 0 .. Len(stream) : m < need },
        e \in {"wouldblock", "error", "eof"} }
    \cup
    IF Len(stream) >= need
        THEN { [end |-> "full", p |-> Fill(p, Take(stream, Min(need + 1, Len(stream)))),
                rx |-> Drop(stream, Min(need + 1, Len(stream)))] }
        ELSE {}

RecvLoop(p, want, stream) ==
    LET need == IF want > p.pos THEN want - p.pos ELSE 0 IN
    { [end |-> e, p |-> Fill(p, Take(stream, n)),
       rx |-> IF e = "eof" THEN <<>> ELSE Drop(stream, n)] :
        n \in { m \in 0 .. Len(stream) : m < need },
        e \in {"wouldblock", "error", "eof"} }
    \cup
    IF Len(stream) >= need
        THEN { [end |-> "full", p |-> Fill(p, Take(stream, need)), rx |-> Drop(stream, need)] }
        ELSE {}

\* The part of Recv_Packet that reads the size (lines 183-213).
ReadSize(p, stream) ==
    IF p.pos < SizeofPacketSize
        THEN { IF o.end = "full"
                 THEN LET q == WithRawPacketSize(o.p) IN
                      [o EXCEPT !.p = q, !.end = IF q.size > SEND_MTU THEN "toobig" ELSE "full"]
                 ELSE o : o \in RecvLoop(p, SizeofPacketSize, stream) }
        ELSE { [end |-> "full", p |-> p, rx |-> stream] }

\* The body of Recv_Packet from "p = this->packet_recv" on: every way the
\* call can end.  end is "full" when the packet is complete.
RecvPacketOutcomes(p, stream) ==
    UNION { IF h.end = "full" THEN RecvLoop(h.p, h.p.size, h.rx) ELSE {h} :
            h \in ReadSize(p, stream) }

\* NetworkCloseClient(this) destroys the connection (~NetworkClientSocket).
Destroyed ==
    /\ sock' = "INVALID_SOCKET"
    /\ writable' = FALSE
    /\ has_quit' = TRUE
    /\ packet_queue' = <<>>
    /\ packet_recv' = <<>>

\* The branch NetworkClientSocket::CloseConnection takes.
ClientDropsToMenu == ~network_server /\ networking

\* The status NetworkClientSocket::CloseConnection returns.
CloseConnectionResult_AlwaysOkay == "NETWORK_RECV_STATUS_OKAY"

CloseConnectionResult ==
    IF ClientDropsToMenu THEN "NETWORK_RECV_STATUS_CONN_LOST" ELSE "NETWORK_RECV_STATUS_OKAY"

\* NetworkClientSocket::CloseConnection; precv and queue are the values of
\* packet_recv and packet_queue at the time of the call.
CloseConnectionEffect(precv, queue) ==
    /\ closes' = closes + 1
    /\ IF ClientDropsToMenu
         THEN /\ switch_mode' = "SM_MENU"
              /\ networking' = FALSE
              /\ packet_recv' = precv
              /\ packet_queue' = queue
              /\ UNCHANGED <<sock, writable, has_quit, network_server>>
         ELSE /\ Destroyed
              /\ UNCHANGED <<networking, network_server, switch_mode>>

\* The results of recv() after which Recv_Packet calls CloseConnection
\* (lines 187-202 and 218-233) and the size test of line 209.
RecvEndCloses_EofIgnored(end) == end \in {"error", "toobig"}

RecvEndCloses_WouldBlockCloses(end) == end # "full"

RecvEndCloses(end) == end \in {"error", "eof", "toobig"}

\* The loop of Recv_Packet in which the call ended: the one that reads the
\* size (lines 184-204) or the one that reads the rest (lines 216-236).
RecvPhase(o) ==
    IF o.end = "toobig" THEN "size"
    ELSE IF o.end = "full" THEN "body"
    ELSE IF o.p.pos < SizeofPacketSize THEN "length" ELSE "body"

\* NetworkClientSocket::Recv_Packet.  tret is <<name, result, how the call
\* ended, p->pos when the call started, the loop in which it ended>>.
Recv_Packet ==
    /\ IF ~IsConnected
         THEN /\ status' = "NETWORK_RECV_STATUS_OKAY"
              /\ tret' = <<"Recv_Packet", "NULL", "not connected", 0, "none">>
              /\ UNCHANGED <<connVars, rx, delivered, closes>>
         ELSE LET p == IF packet_recv = <<>> THEN NewRecvPacket ELSE packet_recv[1] IN
              \E o \in RecvPacketOutcomes(p, rx) :
              /\ rx' = o.rx
              /\ CASE o.end = "full" ->
                        /\ packet_recv' = <<>>
                        /\ delivered' = Append(delivered, PreparedToRead(o.p))
                        /\ status' = "NETWORK_RECV_STATUS_OKAY"
                        /\ tret' = <<"Recv_Packet", "packet", o.end, p.pos, RecvPhase(o)>>
                        /\ UNCHANGED <<has_quit, sock, writable, packet_queue, networking,
                                       network_server, switch_mode, closes>>
                   [] o.end # "full" /\ ~RecvEndCloses(o.end) ->
                        /\ packet_recv' = <<o.p>>
                        /\ status' = "NETWORK_RECV_STATUS_OKAY"
                        /\ tret' = <<"Recv_Packet", "NULL", o.end, p.pos, RecvPhase(o)>>
                        /\ UNCHANGED <<has_quit, sock, writable, packet_queue, networking,
                                       network_server, switch_mode, closes, delivered>>
                   [] OTHER ->
                        /\ CloseConnectionEffect(<<o.p>>, packet_queue)
                        /\ status' = CloseConnectionResult
                        /\ tret' = <<"Recv_Packet", "NULL", o.end, p.pos, RecvPhase(o)>>
                        /\ UNCHANGED delivered
    /\ UNCHANGED <<gammaVars, pktVars, frames, tx, enq>>

\* CloseConnection called by the code that handles the connection; a
\* caller may call it again on a connection it has already closed.
CloseConnection ==
    /\ closes < MaxCloses
    /\ CloseConnectionEffect(packet_recv, packet_queue)
    /\ tret' = <<"CloseConnection", CloseConnectionResult>>
    /\ UNCHANGED <<gammaVars, pktVars, rx, frames, tx, enq, delivered, status>>

\* Packet::PrepareToSend on a packet of this file: the size goes into the
\* first two bytes and the cursor to the start.
PreparedToSend_NoSize(b) == [buffer |-> b, pos |-> 0, size |-> Len(b)]

PreparedToSend(b) ==
    [buffer |-> [b EXCEPT ![1] = GB(Len(b), 0, 8), ![2] = GB(Len(b), 8, 8)],
     pos |-> 0, size |-> Len(b)]

\* Send_Packet, lines 98-107: the packet goes to the tail of the queue.
Enqueued_AtHead(queue, p) == <<p>> \o queue

Enqueued(queue, p) == Append(queue, p)

\* The packets the callers build: a type and a payload after the two bytes
\* of the size.
OutBuffers == { <<0, 0, 5>>, <<0, 0, 6, 9>>, <<0, 0, 7, 1, 2>> }

\* NetworkClientSocket::Send_Packet.  No call reaches a destroyed connection.
Send_Packet ==
    /\ ~has_quit
    /\ Len(enq) < MaxEnqueued
    /\ \E b \in OutBuffers :
          LET p == PreparedToSend(b) IN
          /\ packet_queue' = Enqueued(packet_queue, p)
          /\ enq' = Append(enq, p.buffer)
    /\ tret' = <<"Send_Packet">>
    /\ UNCHANGED <<has_quit, sock, writable, packet_recv, networking, network_server,
                   switch_mode>>
    /\ UNCHANGED <<gammaVars, pktVars, rx, frames, tx, delivered, status, closes>>

\* p->pos += res (line 145): send() accepted k bytes of the packet.
SentPart_NoAdvance(p, k) == p

SentPart(p, k) == [p EXCEPT !.pos = @ + k]

\* The loop of Send_Packets over the queue: every way it can end, with
\* the queue it leaves and the bytes send() accepted.
SendLoop_NeverPops(queue) ==
    IF queue = <<>>
        THEN { [end |-> "empty", queue |-> <<>>, out |-> <<>>] }
        ELSE LET p == Head(queue)
                 left == p.size - p.pos
             IN  { [end |-> e, queue |-> queue, out |-> <<>>] :
                     e \in {"wouldblock", "error", "zero"} }
                 \cup
                 { [end |-> "partial",
                    queue |-> <<SentPart(p, k)>> \o Tail(queue),
                    out |-> SubSeq(p.buffer, p.pos + 1, p.pos + k)] : k \in 1 .. left }

RECURSIVE SendLoop(_)
SendLoop(queue) ==
    IF queue = <<>>
        THEN { [end |-> "empty", queue |-> <<>>, out |-> <<>>] }
        ELSE LET p == Head(queue)
                 left == p.size - p.pos
             IN  { [end |-> e, queue |-> queue, out |-> <<>>] :
                     e \in {"wouldblock", "error", "zero"} }
                 \cup
                 { [end |-> "partial",
                    queue |-> <<SentPart(p, k)>> \o Tail(queue),
                    out |-> SubSeq(p.buffer, p.pos + 1, p.pos + k)] : k \in 1 .. left - 1 }
                 \cup
                 IF left > 0
                     THEN { [o EXCEPT !.out = SubSeq(p.buffer, p.pos + 1, p.size) \o @] :
                              o \in SendLoop(Tail(queue)) }
                     ELSE {}

\* The results of send() after which Send_Packets calls CloseConnection and
\* returns false (lines 129-143).
SendEndCloses_ZeroIgnored(end) == end = "error"

SendEndCloses(end) == end \in {"error", "zero"}

\* The two tests at the start of Send_Packets (lines 123-124): why the call
\* returns false at once, or "none".
SendRefusal_IgnoresWritable ==
    IF ~IsConnected THEN "not connected" ELSE "none"

SendRefusal ==
    IF ~writable THEN "not writable"
    ELSE IF ~IsConnected THEN "not connected"
    ELSE "none"

\* NetworkClientSocket::Send_Packets.  tret is <<name, result, how the call
\* ended, pos of the head packet when the call started>>.
Send_Packets ==
    /\ IF SendRefusal # "none"
         THEN /\ tret' = <<"Send_Packets", FALSE, SendRefusal, 0>>
              /\ UNCHANGED <<connVars, tx, closes>>
         ELSE \E o \in SendLoop(packet_queue) :
              /\ tx' = tx \o o.out
              /\ tret' = <<"Send_Packets", ~SendEndCloses(o.end), o.end,
                           IF packet_queue = <<>> THEN 0 ELSE packet_queue[1].pos>>
              /\ IF SendEndCloses(o.end)
                   THEN CloseConnectionEffect(packet_recv, o.queue)
                   ELSE /\ packet_queue' = o.queue
                        /\ UNCHANGED <<has_quit, sock, writable, packet_recv, networking,
                                       network_server, switch_mode, closes>>
    /\ UNCHANGED <<gammaVars, pktVars, rx, frames, enq, delivered, status>>

\* NetworkClientSocket::IsPacketQueueEmpty
IsPacketQueueEmpty == packet_queue = <<>>

\* The select() of the network loop reports whether the socket can be
\* written to.
Select ==
    /\ IsConnected
    /\ writable' = ~writable
    /\ tret' = <<"select">>
    /\ UNCHANGED <<has_quit, sock, packet_queue, packet_recv, networking, network_server,
                   switch_mode>>
    /\ UNCHANGED <<gammaVars, pktVars, rx, frames, tx, enq, delivered, status, closes>>

-----------------------------------------------------------------------------
(* The sending machine.                                                    *)

\* NetworkClientSocket::NetworkClientSocket leaves sock invalid and does
\* not set writable; the socket is attached when the peer connects.
TcpSendInit ==
    /\ GammaIdle /\ PktIdle
    /\ has_quit = FALSE
    /\ sock \in {"valid", "INVALID_SOCKET"}
    /\ writable \in BOOLEAN
    /\ packet_queue = <<>> /\ packet_recv = <<>>
    /\ networking = TRUE /\ network_server \in BOOLEAN /\ switch_mode = "SM_NONE"
    /\ NetIdle

TcpSendNext == Send_Packet \/ Send_Packets \/ Select \/ CloseConnection

SpecTcpSend == TcpSendInit /\ [][TcpSendNext]_vars

\* A Send_Packets call in which send() accepts at least one byte.
SendProgress == Send_Packets /\ Len(tx') > Len(tx)

\* In the runs checked for progress at most this many packets are handed
\* to Send_Packet.
MaxLiveEnqueued == 2

\* Send_Packet while the caller still has packets to send.
SendNextPacket == Send_Packet /\ Len(enq) < MaxLiveEnqueued

TcpSendLiveNext == SendNextPacket \/ Send_Packets \/ Select \/ CloseConnection

\* The sending machine with a network loop that keeps calling Send_Packets
\* and a socket that keeps accepting bytes.
SpecTcpSendLive == TcpSendInit /\ [][TcpSendLiveNext]_vars /\ WF_vars(SendProgress)

-----------------------------------------------------------------------------
(* The receiving machine.                                                  *)

\* A frame of n bytes whose header declares n bytes; the payload bytes
\* look like a header.
FrameOfLen(n) == <<n, 0>> \o [k \in 1 .. n - 2 |-> IF k = 1 THEN 3 ELSE 0]

\* What the peer can send: well-formed frames, headers that declare less
\* than a header and a type, and frames larger than SEND_MTU.
PeerFrames ==
    { FrameOfLen(n) : n \in 3 .. SEND_MTU }
    \cup { <<3, 0, 7>>, <<0, 0>>, <<2, 0>>, <<0, 1>>, FrameOfLen(SEND_MTU + 1) }

RECURSIVE FrameSeqs(_)
FrameSeqs(n) ==
    IF n = 0 THEN { <<>> }
    ELSE { Append(s, f) : s \in FrameSeqs(n - 1), f \in PeerFrames }

PeerStreams == UNION { FrameSeqs(n) : n \in 1 .. MaxFrames }

\* The outgoing queue when the peer starts to send: empty, or holding a
\* packet that has not been sent yet.
QueuedAtStart == { <<>>, <<PreparedToSend(<<0, 0, 5>>)>> }

TcpRecvInit ==
    /\ GammaIdle /\ PktIdle
    /\ has_quit = FALSE /\ sock = "valid" /\ writable = FALSE
    /\ packet_queue \in QueuedAtStart /\ packet_recv = <<>>
    /\ networking = TRUE /\ network_server \in BOOLEAN /\ switch_mode = "SM_NONE"
    /\ frames \in PeerStreams
    /\ rx = Concat(frames)
    /\ tx = <<>> /\ enq = <<>> /\ delivered = <<>>
    /\ status = "NETWORK_RECV_STATUS_OKAY" /\ tret = <<"none">> /\ closes = 0

TcpRecvNext == Recv_Packet \/ CloseConnection

SpecTcpRecv == TcpRecvInit /\ [][TcpRecvNext]_vars

-----------------------------------------------------------------------------
(* Properties of the tcp machines.                                         *)

\* A complete frame the receive path accepts.
ValidFrame(f) ==
    /\ Len(f) >= SizeofPacketSize + SizeofPacketType
    /\ Len(f) <= SEND_MTU
    /\ ReadRawPacketSize(f) = Len(f)

\* The packet Recv_Packet returns when the whole frame f is available to
\* a single call: the header in one recv, the rest in the next.
SingleCall(f) ==
    PreparedToRead(Fill(WithRawPacketSize(Fill(NewRecvPacket, Take(f, SizeofPacketSize))),
                        Drop(f, SizeofPacketSize)))

AllValid(k) == \A j \in 1 .. k : ValidFrame(frames[j])

\* C1: as long as the peer sends complete well-formed frames, the k-th
\* packet Recv_Packet returns is, in buffer, size and cursor, the packet a
\* single call returns for the k-th frame, however the bytes were split
\* over recv results and calls; no frame yields more than one packet, and
\* once recv has handed over every byte without the connection having
\* been closed, every frame has yielded its packet.
C1_PartialIO ==
    /\ \A k \in 1 .. Len(frames) :
          AllValid(k) /\ k <= Len(delivered) => delivered[k] = SingleCall(frames[k])
    /\ AllValid(Len(frames)) => Len(delivered) <= Len(frames)
    /\ AllValid(Len(frames)) /\ rx = <<>> /\ closes = 0 => Len(delivered) = Len(frames)

\* Two well-formed frames have been delivered, and the call that returned
\* the second one started with one byte of its header already stored.
C1_Witness ==
    /\ Len(frames) = 2 /\ AllValid(2) /\ frames[1] # frames[2]
    /\ Len(delivered) = 2 /\ delivered[2] = SingleCall(frames[2])
    /\ tret[1] = "Recv_Packet" /\ tret[2] = "packet" /\ tret[3] = "full" /\ tret[4] = 1

\* The bytes of the queued packets that send() has not accepted yet.
RECURSIVE Pending(_)
Pending(queue) ==
    IF queue = <<>> THEN <<>>
    ELSE SubSeq(Head(queue).buffer, Head(queue).pos + 1, Head(queue).size)
         \o Pending(Tail(queue))

\* C2: the bytes send() has accepted, followed by the bytes still queued,
\* are the packets handed to Send_Packet, byte for byte in the order of the
\* calls; so the stream on the socket is always a prefix of A, B, C and it
\* is the whole of it when the queue is empty.
C2_QueueOrder ==
    /\ Len(tx) <= Len(Concat(enq)) /\ tx = Take(Concat(enq), Len(tx))
    /\ ~has_quit => tx \o Pending(packet_queue) = Concat(enq)

\* Three different packets have been sent completely, the last call having
\* resumed a packet that an earlier call had sent in part.
C2_Witness ==
    /\ Len(enq) = 3 /\ enq[1] # enq[2] /\ enq[2] # enq[3] /\ enq[1] # enq[3]
    /\ IsPacketQueueEmpty /\ ~has_quit
    /\ tx = enq[1] \o enq[2] \o enq[3]
    /\ tret[1] = "Send_Packets" /\ tret[3] = "empty" /\ tret[4] > 0

\* C6: no packet whose header declares less than a header and a type, or
\* more than SEND_MTU, is ever returned by Recv_Packet.
C6_FrameLengthBounds ==
    \A k \in 1 .. Len(delivered) :
        /\ delivered[k].size >= SizeofPacketSize + SizeofPacketType
        /\ delivered[k].size <= SEND_MTU

\* The packet a Recv_Packet call works on: packet_recv, or a new packet.
RecvTarget == IF packet_recv = <<>> THEN NewRecvPacket ELSE packet_recv[1]

\* C21: a Recv_Packet call that ends because recv reports would-block, in
\* the loop for the size or in the loop for the rest, returns NULL with
\* status OKAY; the outgoing queue, the socket, has_quit and the networking
\* state are what they were, CloseConnection was not called, and the receive
\* buffer and its fill position are what they were plus exactly the bytes
\* that recv handed over before it blocked (nothing when it blocked at once).
C21_WouldBlock ==
    [][ (tret'[1] = "Recv_Packet" /\ tret'[3] = "wouldblock") =>
          /\ tret'[2] = "NULL"
          /\ status' = "NETWORK_RECV_STATUS_OKAY"
          /\ UNCHANGED <<packet_queue, sock, has_quit, writable, networking,
                         network_server, switch_mode, closes, delivered>>
          /\ LET n == Len(rx) - Len(rx') IN
                /\ n >= 0 /\ rx' = Drop(rx, n)
                /\ packet_recv' # <<>>
                /\ packet_recv'[1].buffer = RecvTarget.buffer \o Take(rx, n)
                /\ packet_recv'[1].pos = RecvTarget.pos + n
                /\ tret'[5] = "length" => packet_recv'[1].pos < SizeofPacketSize
                /\ tret'[5] = "body" => packet_recv'[1].pos < packet_recv'[1].size
      ]_vars

\* A call found a packet with three bytes of a four-byte frame stored, recv
\* blocked at once, and a packet is waiting in the outgoing queue.
C21_Witness ==
    /\ tret[1] = "Recv_Packet" /\ tret[3] = "wouldblock" /\ tret[5] = "body"
    /\ packet_recv # <<>> /\ packet_recv[1].pos = 3 /\ tret[4] = 3
    /\ packet_recv[1].size = 4
    /\ packet_queue # <<>> /\ sock = "valid" /\ closes = 0

\* C22: a Recv_Packet call in which recv returns 0 bytes, or fails with an
\* error other than would-block, in the loop for the size or in the loop
\* for the rest, calls CloseConnection exactly once, returns NULL, reports
\* the status CloseConnection returned and hands no packet to the caller.
C22_TerminalRecv ==
    [][ (tret'[1] = "Recv_Packet" /\ tret'[3] \in {"eof", "error"}) =>
          /\ closes' = closes + 1
          /\ tret'[2] = "NULL"
          /\ tret'[5] \in {"length", "body"}
          /\ status' = CloseConnectionResult
          /\ delivered' = delivered
      ]_vars

\* The peer closed the connection while the rest of a frame was being
\* read, after an earlier call had stored the size and one more byte.
C22_Witness ==
    /\ tret[1] = "Recv_Packet" /\ tret[2] = "NULL" /\ tret[3] = "eof"
    /\ tret[5] = "body" /\ tret[4] = 3
    /\ closes = 1 /\ delivered = <<>>

\* The queue after send() has accepted n more bytes of it: packets leave
\* at the head, and only when their last byte has been accepted.
RECURSIVE AfterAccepting(_, _)
AfterAccepting(queue, n) ==
    IF queue = <<>> THEN <<>>
    ELSE LET left == Head(queue).size - Head(queue).pos IN
         IF n >= left
            THEN AfterAccepting(Tail(queue), n - left)
            ELSE <<[Head(queue) EXCEPT !.pos = @ + n]>> \o Tail(queue)

\* C23: a Send_Packets call that does not close the connection leaves the
\* queue it found minus the packets at its head whose every byte send()
\* accepted; no packet with cursor below its size is removed and none with
\* cursor equal to its size stays.  When a write accepts fewer bytes than
\* remain in the head packet, the cursor of that packet has advanced by the
\* accepted count, the packet is at the head, the call returns true and
\* nothing after those bytes is sent.
C23_PartialSend ==
    [][ (tret'[1] = "Send_Packets" /\ tret'[3] \in {"partial", "empty", "wouldblock"}) =>
          LET n == Len(tx') - Len(tx) IN
          /\ n >= 0 /\ tx' = tx \o Take(Pending(packet_queue), n)
          /\ packet_queue' = AfterAccepting(packet_queue, n)
          /\ \A k \in 1 .. Len(packet_queue') : packet_queue'[k].pos < packet_queue'[k].size
          /\ tret'[2] = TRUE
          /\ closes' = closes
          /\ tret'[3] = "partial" =>
                /\ packet_queue' # <<>>
                /\ packet_queue'[1].pos > 0
          /\ tret'[3] = "empty" => packet_queue' = <<>>
      ]_vars

\* One call sent the whole first packet and two bytes of the second; the
\* second is at the head with cursor 2 and the third behind it.
C23_Witness ==
    /\ tret[1] = "Send_Packets" /\ tret[2] = TRUE /\ tret[3] = "partial" /\ tret[4] = 0
    /\ Len(enq) = 3 /\ Len(packet_queue) = 2
    /\ packet_queue[1].pos = 2 /\ packet_queue[1].buffer = enq[2]
    /\ packet_queue[2].pos = 0 /\ packet_queue[2].buffer = enq[3]
    /\ tx = enq[1] \o Take(enq[2], 2)

\* The last n packets of the queue.
LastPackets(queue, n) == SubSeq(queue, Len(queue) - n + 1, Len(queue))

\* C24: a Send_Packets call that ends on would-block returns true without
\* calling CloseConnection, and the packets it leaves queued are packets of
\* the queue it found with their cursors as they were (all of them when the
\* first send blocks); a call in which send returns 0 or fails with another
\* error calls CloseConnection exactly once and returns false, and what it
\* sent before that result is whole packets from the head of the queue.
C24_SendOutcomes ==
    [][ tret'[1] = "Send_Packets" =>
          LET n == Len(tx') - Len(tx) IN
          /\ tret'[3] = "wouldblock" =>
                /\ tret'[2] = TRUE
                /\ closes' = closes
                /\ UNCHANGED <<sock, has_quit, writable, packet_recv, networking, switch_mode>>
                /\ Len(packet_queue') <= Len(packet_queue)
                /\ packet_queue' = LastPackets(packet_queue, Len(packet_queue'))
                /\ packet_queue' # <<>>
                /\ n = 0 => packet_queue' = packet_queue
          /\ tret'[3] \in {"zero", "error"} =>
                /\ tret'[2] = FALSE
                /\ closes' = closes + 1
                /\ tx' = tx \o Take(Pending(packet_queue), n)
                /\ AfterAccepting(packet_queue, n) =
                      LastPackets(packet_queue, Len(AfterAccepting(packet_queue, n)))
                /\ AfterAccepting(packet_queue, n) # <<>>
                /\ packet_queue' \in {<<>>, AfterAccepting(packet_queue, n)}
      ]_vars

\* A call sent the whole first packet, then send returned 0: the call
\* returned false after one CloseConnection and the second packet never
\* reached the socket.
C24_Witness ==
    /\ tret[1] = "Send_Packets" /\ tret[2] = FALSE /\ tret[3] = "zero" /\ tret[4] = 0
    /\ Len(enq) >= 2 /\ tx = enq[1] /\ closes = 1

\* C25: a CloseConnection call that directly follows a CloseConnection call
\* on the same connection changes neither the connection nor the global
\* networking state and returns the status the first call returned.
C25_CloseIdempotent ==
    [][ (tret[1] = "CloseConnection" /\ tret'[1] = "CloseConnection") =>
          /\ UNCHANGED connVars
          /\ tret'[2] = tret[2]
      ]_vars

\* C26: when a CloseConnection call returns (made by the caller or from
\* within Recv_Packet), the outgoing queue is empty, no partly received
\* packet is held and the socket is invalid; and once CloseConnection has
\* been called, no Recv_Packet call takes bytes from the socket.
C26_ClosedReleases ==
    [][ /\ closes' = closes + 1 =>
              /\ packet_queue' = <<>>
              /\ packet_recv' = <<>>
              /\ ~IsConnected'
        /\ (closes > 0 /\ tret'[1] = "Recv_Packet") =>
              /\ rx' = rx
              /\ tret'[3] = "not connected"
      ]_vars

\* The Recv_* operations and what each returns when it reads nothing.
ReadOps ==
    {"Recv_bool", "Recv_uint8", "Recv_uint16", "Recv_uint32", "Recv_uint64",
     "Recv_binary", "Recv_string", "Recv_string_std"}

NothingRead(op) ==
    CASE op = "Recv_bool" -> FALSE
      [] op \in {"Recv_uint8", "Recv_uint16"} -> 0
      [] op = "Recv_uint32" -> <<0, 0>>
      [] op = "Recv_uint64" -> <<0, 0, 0, 0>>
      [] op = "Recv_binary" -> "untouched"

\* C27: every Recv_* call on a packet whose connection has quit leaves the
\* read cursor where it was, reads no byte of the buffer and leaves the
\* connection marked as quit; Recv_bool and Recv_uint8/16/32/64 return 0
\* (false), Recv_binary and both Recv_string leave the destination as it
\* was -- also when enough unread bytes remain.
C27_QuitReads ==
    [][ (has_quit /\ ret'[1] \in ReadOps) =>
          /\ pos' = pos /\ ret'[3] = pos
          /\ has_quit'
          /\ oob' = FALSE
          /\ UNCHANGED <<dst, copied, buffer>>
          /\ IF ret'[1] \in {"Recv_string", "Recv_string_std"}
               THEN ret'[4] = "quit"
               ELSE ret'[2] = NothingRead(ret'[1])
      ]_vars

\* The connection has quit; Recv_uint16 returned 0 and left the cursor in
\* front of two unread bytes of which the first is not 0.
C27_Witness ==
    /\ has_quit /\ mode = "read"
    /\ ret[1] = "Recv_uint16" /\ ret[2] = 0 /\ ret[3] = pos
    /\ pos + 2 <= Size /\ buffer[pos + 1] # 0
    /\ sent = <<>>

\* C28: the status a Recv_Packet call reports is CONN_LOST exactly when the
\* call closed the connection on a peer that was not the server and was
\* networking; a closing call on the server reports OKAY, and so does every
\* call that does not close the connection (would-block, not connected, a
\* packet returned).
C28_RecvStatus ==
    [][ tret'[1] = "Recv_Packet" =>
          /\ status' \in {"NETWORK_RECV_STATUS_OKAY", "NETWORK_RECV_STATUS_CONN_LOST"}
          /\ status' = "NETWORK_RECV_STATUS_CONN_LOST" <=>
                (closes' = closes + 1 /\ ~network_server /\ networking)
          /\ closes' \in {closes, closes + 1}
          /\ tret'[3] \in {"wouldblock", "not connected", "full"} => closes' = closes
      ]_vars

\* A client lost the connection while the rest of a frame was being read:
\* the call reported CONN_LOST and the client is on its way to the menu.
C28_Witness ==
    /\ tret[1] = "Recv_Packet" /\ tret[3] = "error" /\ tret[5] = "body"
    /\ status = "NETWORK_RECV_STATUS_CONN_LOST"
    /\ ~network_server /\ ~networking /\ switch_mode = "SM_MENU" /\ closes = 1

\* C29: the fill position of the packet a Recv_Packet call works on never
\* moves back and its declared size, once read, stays; a packet is
\* returned only when the bytes accumulated for it are exactly as many as
\* its header declares; on returning it the connection holds no receive
\* packet, and a call that finds none starts a new packet at fill
\* position 0, reading the size first.
C29_RecvOrder ==
    [][ tret'[1] = "Recv_Packet" =>
          /\ tret'[2] = "packet" =>
                /\ packet_recv' = <<>>
                /\ Len(delivered') = Len(delivered) + 1
                /\ Len(delivered'[Len(delivered')].buffer) = delivered'[Len(delivered')].size
          /\ (packet_recv = <<>> /\ IsConnected) => tret'[4] = 0
          /\ (packet_recv' # <<>> /\ tret'[3] # "not connected") =>
                /\ packet_recv'[1].pos >= RecvTarget.pos
                /\ RecvTarget.pos >= SizeofPacketSize =>
                      packet_recv'[1].size = RecvTarget.size
      ]_vars

\* C30: a Recv_string call (either variant) made with the read cursor at or
\* before the end of the packet reads no byte at an index >= Size(); the
\* char * variant with capacity c stores at most c bytes, the last of
\* them a NUL.
C30_StringInBounds ==
    (ret[1] \in {"Recv_string", "Recv_string_std"} /\ ret[3] <= Size) =>
        /\ ~oob
        /\ (ret[1] = "Recv_string" /\ ret[4] # "quit") =>
              /\ Len(copied) >= 1 /\ Len(copied) <= ret[2]
              /\ copied[Len(copied)] = 0

\* C31: when the connection stays writable and connected and Send_Packets
\* keeps being called with the socket accepting bytes, the outgoing queue
\* is empty again and again with every packet handed to Send_Packet on the
\* socket in full; and every Send_Packets call that reaches the loop ends
\* with the queue empty or because send() took less than it was offered
\* (a part, nothing yet, nothing any more, or an error).
C31_SendLiveness ==
    /\ [][ (tret'[1] = "Send_Packets" /\ writable /\ IsConnected) =>
              /\ tret'[3] \in {"empty", "partial", "wouldblock", "zero", "error"}
              /\ tret'[3] = "empty" =>
                    /\ packet_queue' = <<>>
                    /\ tx' = tx \o Pending(packet_queue)
         ]_vars
    /\ [](writable /\ IsConnected) => []<>(IsPacketQueueEmpty /\ tx = Concat(enq))

\* Two packets were queued on a writable connection and the call that
\* emptied the queue resumed a packet sent in part before.
C31_Witness ==
    /\ writable /\ IsConnected /\ closes = 0
    /\ Len(enq) = 2 /\ IsPacketQueueEmpty /\ tx = Concat(enq)
    /\ tret[1] = "Send_Packets" /\ tret[2] = TRUE /\ tret[3] = "empty" /\ tret[4] > 0

\* C32: every Send_bool that is not refused appends exactly one byte, 1 for
\* true and 0 for false; every Recv_bool that reads (open connection, one
\* byte left) consumes one byte and returns true exactly when that byte is
\* not 0.
C32_BoolEncoding ==
    [][ /\ (ret'[1] = "Send_bool" /\ fault' = "none") =>
              /\ Len(sent') = Len(sent) + 1
              /\ sent'[Len(sent')].t = "bool"
              /\ buffer' = Append(buffer, IF sent'[Len(sent')].v THEN 1 ELSE 0)
        /\ (ret'[1] = "Recv_bool" /\ ~has_quit /\ pos + 1 <= Size) =>
              /\ pos' = pos + 1
              /\ ret'[2] = (buffer[pos + 1] # 0)
              /\ ret'[2] \in BOOLEAN
      ]_vars

\* Recv_bool consumed a byte that is neither 0 nor 1 and returned true.
C32_Witness ==
    /\ ret[1] = "Recv_bool" /\ ret[2] = TRUE
    /\ pos = ret[3] + 1 /\ pos <= Size
    /\ buffer[pos] > 1

\* C33: PrepareToSend on a packet that has a connection (cs is not null) is
\* a failed assert and leaves the buffer and the cursor as they were; so
\* does Send_Packet with such a packet, and the packet is not put in the
\* outgoing queue.  With cs null neither call faults.
C33_PrepareReceived ==
    [][ ret'[1] \in {"PrepareToSend", "Send_Packet"} =>
          IF cs = "cs"
            THEN /\ fault' = "assert"
                 /\ UNCHANGED <<buffer, pos, packet_queue>>
            ELSE /\ fault' = "none"
                 /\ ret'[1] = "Send_Packet" => Len(packet_queue') = Len(packet_queue) + 1
      ]_vars

\* A packet that was received and prepared for reading was handed to
\* Send_Packet: the assert failed and the queue is empty.
C33_Witness ==
    /\ ret[1] = "Send_Packet" /\ fault = "assert"
    /\ cs = "cs" /\ mode = "read" /\ Size >= 3
    /\ packet_queue = <<>>

\* The bytes of the first n packets of a sequence of packets.
RECURSIVE BuffersOf(_, _)
BuffersOf(packets, n) ==
    IF n = 0 THEN <<>> ELSE BuffersOf(packets, n - 1) \o packets[n].buffer

\* The bytes held in packet_recv.
HeldBytes == IF packet_recv = <<>> THEN <<>> ELSE packet_recv[1].buffer

\* The frames after the first n.
FramesAfter(n) == Concat(SubSeq(frames, n + 1, Len(frames)))

\* C34: Recv_Packet takes from the socket only bytes of the frame it is
\* receiving.  While CloseConnection has not been called, the delivered
\* packets, the bytes held for the current frame and the bytes still in the
\* socket are, in this order, the stream the peer sent; the packet being
\* received never holds more than the two header bytes or than its header
\* declares; and when the peer sends well-formed frames back to back, the
\* k-th delivery is the k-th frame byte for byte and leaves the socket at
\* the first byte of the next frame.
C34_FrameBoundaries ==
    /\ closes = 0 =>
          BuffersOf(delivered, Len(delivered)) \o HeldBytes \o rx = Concat(frames)
    /\ packet_recv # <<>> =>
          /\ Len(packet_recv[1].buffer) = packet_recv[1].pos
          /\ packet_recv[1].pos <= SizeofPacketSize \/ packet_recv[1].pos <= packet_recv[1].size
    /\ \A k \in 1 .. Len(delivered) :
          (k <= Len(frames) /\ AllValid(k)) =>
              /\ delivered[k].buffer = frames[k]
              /\ (k = Len(delivered) /\ packet_recv = <<>> /\ closes = 0) => rx = FramesAfter(k)

\* Two different well-formed frames arrived back to back; the first call
\* delivered the first, the next call started a new packet and delivered
\* the second.
C34_Witness ==
    /\ Len(frames) = 2 /\ AllValid(2) /\ Len(frames[1]) # Len(frames[2])
    /\ Len(delivered) = 2 /\ delivered[1].buffer = frames[1] /\ delivered[2].buffer = frames[2]
    /\ tret[1] = "Recv_Packet" /\ tret[2] = "packet" /\ tret[4] = 0
    /\ rx = <<>> /\ closes = 0

\* C35: recv never stores a byte at an offset of SEND_MTU or above: the
\* packet being received and every packet delivered hold at most SEND_MTU
\* bytes, and a packet whose header declares more than SEND_MTU is never
\* filled beyond its header.
C35_RecvCapacity ==
    /\ packet_recv # <<>> =>
          /\ packet_recv[1].pos <= SEND_MTU
          /\ packet_recv[1].size > SEND_MTU => packet_recv[1].pos <= SizeofPacketSize
    /\ \A k \in 1 .. Len(delivered) : Len(delivered[k].buffer) <= SEND_MTU

\* The number of leading 1 bits of a first byte that ReadGamma accepts.
LeadingOnes(b) ==
    IF b < 128 THEN 0 ELSE IF b < 192 THEN 1 ELSE IF b < 224 THEN 2 ELSE IF b < 240 THEN 3 ELSE 4

\* The number of bytes WriteGamma wrote for the first k values.
RECURSIVE WrittenLength(_)
WrittenLength(k) == IF k = 0 THEN 0 ELSE WrittenLength(k - 1) + GammaLength(gwritten[k])

\* C39: a ReadGamma call that returns without fault has consumed 1 byte plus
\* one for every leading 1 bit of the first byte it read, and every value
\* it returns is below 2^28; reading a dump, the reads do not fault, the
\* k-th read returns the k-th value written and ends where WriteGamma's
\* bytes for that value end, so as many reads as there were writes consume
\* the dump exactly.
C39_SelfDelimiting ==
    /\ (gerr = "none" /\ Len(glast) = 2) => gbufp - glast[1] = 1 + LeadingOnes(glast[2])
    /\ \A k \in 1 .. Len(gread) : gread[k] < Pow2(28)
    /\ gmode = "read" =>
          /\ gerr = "none"
          /\ Len(gread) <= Len(gwritten)
          /\ \A k \in 1 .. Len(gread) : gread[k] = gwritten[k]
          /\ gbufp = WrittenLength(Len(gread))
          /\ Len(gbuf) = WrittenLength(Len(gwritten))

\* A three-byte value followed by a two-byte value were written and both
\* read back; the second read started at offset 3, at a byte with one
\* leading 1 bit, and consumed two bytes.
C39_Witness ==
    /\ gmode = "read" /\ Len(gwritten) = 2 /\ gread = gwritten
    /\ gwritten[1] >= Pow2(14) /\ gwritten[1] < Pow2(21)
    /\ gwritten[2] >= Pow2(7) /\ gwritten[2] < Pow2(14)
    /\ Len(glast) = 2 /\ glast[1] = 3 /\ LeadingOnes(glast[2]) = 1
    /\ gbufp = 5 /\ Len(gbuf) = 5

\* The bytes of a queue that are still to be sent when only its head has
\* been sent in part: the rest of the head, then the other packets whole.
Unsent(queue) ==
    IF queue = <<>> THEN <<>>
    ELSE Drop(queue[1].buffer, queue[1].pos)
         \o Concat([k \in 1 .. Len(queue) - 1 |-> queue[k + 1].buffer])

\* C36: on an open connection the bytes the socket has accepted, then the
\* unsent rest of the head packet, then the other queued packets in full,
\* are the packets handed to Send_Packet in the order of the calls.
C36_ByteConservation ==
    (IsConnected /\ ~has_quit) => tx \o Unsent(packet_queue) = Concat(enq)

\* Three packets were handed over; the first has been sent in part and the
\* other two wait behind it.
C36_Witness ==
    /\ IsConnected /\ ~has_quit /\ Len(enq) = 3 /\ Len(packet_queue) = 3
    /\ packet_queue[1].pos > 0 /\ Len(tx) = packet_queue[1].pos
    /\ tret[1] = "Send_Packets" /\ tret[3] = "partial"

\* C37: every packet in the outgoing queue carries its size in its first
\* two bytes, has its cursor below its size, and has cursor 0 unless it is
\* the head of the queue.
C37_QueueInvariant ==
    \A k \in 1 .. Len(packet_queue) :
        /\ packet_queue[k].size = Len(packet_queue[k].buffer)
        /\ ReadRawPacketSize(packet_queue[k].buffer) = packet_queue[k].size
        /\ packet_queue[k].pos >= 0 /\ packet_queue[k].pos < packet_queue[k].size
        /\ k > 1 => packet_queue[k].pos = 0

\* A packet was queued behind a head that had already been sent in part.
C37_Witness ==
    /\ Len(packet_queue) = 2 /\ packet_queue[1].pos > 0 /\ packet_queue[2].pos = 0
    /\ packet_queue[1].buffer # packet_queue[2].buffer
    /\ tret[1] = "Send_Packet"

\* C38: Send_Packets returns false exactly when the connection was not
\* writable, or not connected, or CloseConnection was called during the
\* call, and true otherwise, also when the queue was or became empty; a
\* call refused for the first two reasons accepts no byte and leaves the
\* connection and its queue as they were.
C38_SendResult ==
    [][ tret'[1] = "Send_Packets" =>
          /\ tret'[2] \in BOOLEAN
          /\ tret'[2] = FALSE <=>
                (~writable \/ sock = "INVALID_SOCKET" \/ closes' = closes + 1)
          /\ (~writable \/ sock = "INVALID_SOCKET") =>
                /\ tx' = tx /\ closes' = closes
                /\ UNCHANGED connVars
          /\ (writable /\ sock # "INVALID_SOCKET" /\ packet_queue = <<>>) =>
                tret'[2] = TRUE /\ packet_queue' = <<>>
      ]_vars

\* A writable connection without a socket: the call returned false and the
\* queued packet stayed untouched.
C38_Witness ==
    /\ tret[1] = "Send_Packets" /\ tret[2] = FALSE /\ tret[3] = "not connected"
    /\ writable /\ sock = "INVALID_SOCKET" /\ closes = 0
    /\ Len(packet_queue) = 1 /\ packet_queue[1].pos = 0 /\ tx = <<>>

=============================================================================
